---- MODULE Spec2Model ----
(***************************************************************************)
(* Listing-group tree builders of dma_script (campaign_processor.py,       *)
(* rebuild_campaigns_without_cl2_cl3.py, google_ads_helpers.py), modelled  *)
(* against one ad group of the remote ads platform.                        *)
(*                                                                         *)
(* A string is a sequence of one-character strings, so that str.lower(),   *)
(* str.endswith() and sorted(key=str.lower) are computed, not assumed.     *)
(* The empty sequence stands for '' and for None (the code tests both with *)
(* "if not value").                                                        *)
(***************************************************************************)
EXTENDS Integers, Sequences, FiniteSets, TLC

VARIABLES
    tree,         \* remote listing-group rows of the ad group, in read order
    nextReal,     \* next criterion id the remote system hands out
    tempCounter,  \* google_ads_helpers._temp_id_counter
    pc,           \* "idle" | "wait" (a mutate call is in flight) | "resp"
    fn,           \* the tree builder that is running or ran last
    batchNo,      \* number of the creation batch submitted last in this run
    inflight,     \* operations of the creation batch submitted last
    response,     \* the remote answer to that batch: [status, results]
    placed,       \* placeholder -> real id pairs the remote system fixed in this run
    calls,        \* mutate calls issued in this run: "remove" | "create"
    result,       \* "none" | "success" (returned) | "failure" (raised)
    err,          \* which raise ended the run
    warn,         \* warnings printed in this run
    runs,         \* builder calls started so far
    loc,          \* the running function's local variables
    reads,        \* outcomes of the tree reads of this run: "ok" | "failed"
    sheet,        \* the worksheet a sheet processor works on, and its position
    threads       \* workers inside next_id(), and the values it returned

vars == <<tree, nextReal, tempCounter, pc, fn, batchNo, inflight, response,
          placed, calls, result, err, warn, runs, loc, reads, sheet, threads>>

----------------------------------------------------------------------------
(* Bounds *)

MaxRuns == 2
MaxShops == 2
MaxUnits == 2
MaxRebuilds == 1

(* Program constants *)

DEFAULT_BID_MICROS == 200000
UNIT_BID_MICROS == 10000

----------------------------------------------------------------------------
(* Strings *)

NoValue == <<>>

Ord(c) ==
    CASE c = " " -> 32 [] c = "." -> 46
      [] c = "7" -> 55 [] c = "8" -> 56 [] c = "9" -> 57
      [] c = "L" -> 76 [] c = "N" -> 78 [] c = "X" -> 88
      [] c = "_" -> 95
      [] c = "a" -> 97 [] c = "b" -> 98 [] c = "c" -> 99 [] c = "g" -> 103
      [] c = "l" -> 108 [] c = "n" -> 110
      [] c = "x" -> 120 [] c = "y" -> 121

LowerChar(c) ==
    CASE c = "L" -> "l" [] c = "N" -> "n" [] c = "X" -> "x" [] OTHER -> c

Lower(s) == [i \in DOMAIN s |-> LowerChar(s[i])]

RECURSIVE StrLeq(_, _)
StrLeq(a, b) ==
    IF a = <<>> THEN TRUE
    ELSE IF b = <<>> THEN FALSE
    ELSE IF Ord(Head(a)) < Ord(Head(b)) THEN TRUE
    ELSE IF Ord(Head(a)) > Ord(Head(b)) THEN FALSE
    ELSE StrLeq(Tail(a), Tail(b))

EndsWith(s, suf) ==
    /\ Len(s) >= Len(suf)
    /\ SubSeq(s, Len(s) - Len(suf) + 1, Len(s)) = suf

Range(s) == {s[i] : i \in DOMAIN s}

RECURSIVE Flatten(_)
Flatten(ss) == IF ss = <<>> THEN <<>> ELSE Head(ss) \o Flatten(Tail(ss))

(* The value of each row, in order *)
ValuesOf(rows) == [i \in DOMAIN rows |-> rows[i].value]

(* sorted(S, key=str.lower): every ordering of the set by lower-cased key.  *)
(* Elements with equal keys keep the set's iteration order, which the       *)
(* program does not control.                                                 *)
SortedByLower(S) ==
    {p \in [1..Cardinality(S) -> S] :
        /\ \A i, j \in 1..Cardinality(S) : i # j => p[i] # p[j]
        /\ \A i, j \in 1..Cardinality(S) :
              i < j => StrLeq(Lower(p[i]), Lower(p[j]))}

(* Values used as inputs *)

xnl == <<"x", ".", "n", "l">>
XNL == <<"X", ".", "N", "L">>
ynl == <<"y", ".", "n", "l">>
V77 == <<"7", "7">>
V88 == <<"8", "8">>
V99 == <<"9", "9">>
V89 == <<"8", "9">>
Va == <<"a">>
Vb == <<"b">>
AG_a == <<"g", "_", "a">>
AG_b == <<"g", "_", "b">>
AG_plain == <<"g">>
OldBid == DEFAULT_BID_MICROS - 50000

SeqsUpTo(S, n) == UNION {[1..k -> S] : k \in 0..n}

----------------------------------------------------------------------------
(* Rows of the remote tree and creation operations *)

Node(id, parent, kind, axis, value, neg, bid) ==
    [id |-> id, parent |-> parent, kind |-> kind, axis |-> axis,
     value |-> value, neg |-> neg, bid |-> bid]

CustomAxes == {"INDEX0", "INDEX1", "INDEX2", "INDEX3", "INDEX4"}

(* next_id(): the counter is decremented, then returned *)
NextId(c) == c - 1

(* create_listing_group_subdivision: tmp is the placeholder resource name *)
SubOp(tmp, parent, axis, value) ==
    [tmp |-> tmp, parent |-> parent, kind |-> "SUBDIVISION", axis |-> axis,
     value |-> value, neg |-> FALSE, bid |-> 0]

(* create_listing_group_unit_biddable: the bid is kept only on a positive   *)
(* unit with a non-zero bid                                                  *)
UnitOp(tmp, parent, axis, value, neg, bid) ==
    [tmp |-> tmp, parent |-> parent, kind |-> "UNIT", axis |-> axis,
     value |-> value, neg |-> neg,
     bid |-> IF bid # 0 /\ ~neg THEN bid ELSE 0]

Tmps(ops) == {ops[i].tmp : i \in DOMAIN ops}

(* results[i] of a mutate response, with the code's 0-based index *)
Res(results, i) == results[i + 1]

----------------------------------------------------------------------------
(* The remote system *)

(* Real id given to the operation at position j of a batch *)
RealAt(base, j) == base + j - 1

PosOfTmp(ops, t) == CHOOSE j \in DOMAIN ops : ops[j].tmp = t

(* Parent of an operation once placeholders are replaced by real ids *)
RealParent(ops, base, j) ==
    IF ops[j].parent < 0
    THEN RealAt(base, PosOfTmp(ops, ops[j].parent))
    ELSE ops[j].parent

CreatedNodes(ops, base) ==
    [j \in DOMAIN ops |->
        Node(RealAt(base, j), RealParent(ops, base, j), ops[j].kind,
             ops[j].axis, ops[j].value, ops[j].neg, ops[j].bid)]

(* The same case under the same parent, values compared exactly *)
SameCase(n, m) ==
    /\ n.parent = m.parent
    /\ n.axis = m.axis
    /\ n.value = m.value

(* The same case once the values are lower-cased *)
SameFolded(n, m) ==
    /\ n.parent = m.parent
    /\ n.axis = m.axis
    /\ Lower(n.value) = Lower(m.value)

(* "This exact node already exists": an operation repeats a node of the    *)
(* tree or another operation of the batch.                                  *)
Duplicates(ops, t, base, folded) ==
    LET new == CreatedNodes(ops, base)
        Same(n, m) == IF folded THEN SameFolded(n, m) ELSE SameCase(n, m)
    IN  \/ \E j \in DOMAIN new : \E i \in DOMAIN t : Same(new[j], t[i])
        \/ \E j, k \in DOMAIN new : j # k /\ Same(new[j], new[k])

(* Every parent is absent (the root), a placeholder of the batch or a row  *)
(* of the tree.                                                             *)
Resolvable(ops, t) ==
    \A j \in DOMAIN ops :
        \/ ops[j].parent = 0
        \/ ops[j].parent \in Tmps(ops)
        \/ \E i \in DOMAIN t : t[i].id = ops[j].parent

(* A mutate call is all-or-nothing. Any call may fail for a reason of the  *)
(* platform's own ("error"). Whether the platform takes two values that     *)
(* differ only by case for the same node is not known to the program: both  *)
(* answers are possible.                                                    *)
MutateOutcomes(ops, t, base) ==
    IF ~Resolvable(ops, t) THEN {"error"}
    ELSE IF Duplicates(ops, t, base, FALSE) THEN {"exists"}
    ELSE IF Duplicates(ops, t, base, TRUE) THEN {"exists", "ok", "error"}
    ELSE {"ok", "error"}

RECURSIVE Under(_, _, _)
Under(t, id, anc) ==
    \/ id = anc
    \/ \E i \in DOMAIN t :
          t[i].id = id /\ t[i].parent # 0 /\ Under(t, t[i].parent, anc)

(* Removing a node removes its subtree *)
RemoveCascade(t, id) == SelectSeq(t, LAMBDA r : ~Under(t, r.id, id))

----------------------------------------------------------------------------
(* Existing trees the ad group may carry when a builder is called *)

RootNode == Node(1, 0, "SUBDIVISION", "ROOT", NoValue, FALSE, 0)

(* A subdivision on axis with its negative OTHERS sibling, under parent p, *)
(* using ids n and n + 1.                                                   *)
Level(n, p, axis, value) ==
    << Node(n, p, "SUBDIVISION", axis, value, FALSE, 0),
       Node(n + 1, p, "UNIT", axis, NoValue, TRUE, 0) >>

(* Leaf level under p: negative CL3 units and a positive CL3 OTHERS leaf *)
Cl3Leaf(n, p, excl, bid) ==
    [i \in 1..Len(excl) |->
        Node(n + i - 1, p, "UNIT", "INDEX3", excl[i], TRUE, 0)]
    \o << Node(n + Len(excl), p, "UNIT", "INDEX3", NoValue, FALSE, bid) >>

(* Leaf level under p as rebuild_tree_with_shop_exclusions leaves it when  *)
(* item ids exist: CL3 OTHERS is a subdivision holding the item ids.        *)
Cl3ItemLeaf(n, p, excl, items, bid) ==
    LET m == n + Len(excl)
    IN  [i \in 1..Len(excl) |->
            Node(n + i - 1, p, "UNIT", "INDEX3", excl[i], TRUE, 0)]
        \o << Node(m, p, "SUBDIVISION", "INDEX3", NoValue, FALSE, 0) >>
        \o [i \in 1..Len(items) |->
            Node(m + i, m, "UNIT", "ITEM", items[i], TRUE, 0)]
        \o << Node(m + Len(items) + 1, m, "UNIT", "ITEM", NoValue, FALSE, bid) >>

(* CL0 units under p, without their OTHERS sibling *)
UnitRows(n, p, units) ==
    [i \in 1..Len(units) |->
        Node(n + i - 1, p, "UNIT", "INDEX0", units[i].value, units[i].neg,
             units[i].bid)]

(* Leaf level under p: CL0 units and the negative CL0 OTHERS leaf *)
Cl0UnitLeaf(n, p, units) ==
    UnitRows(n, p, units)
    \o << Node(n + Len(units), p, "UNIT", "INDEX0", NoValue, TRUE, 0) >>

(* Leaf level under p: one CL1 unit and the positive CL1 OTHERS leaf *)
Cl1UnitLeaf(n, p, unit, bid) ==
    << Node(n, p, "UNIT", "INDEX1", unit.value, unit.neg, unit.bid),
       Node(n + 1, p, "UNIT", "INDEX1", NoValue, FALSE, bid) >>

(* Two CL0 branches under p, each with its own CL3 exclusion *)
TwoBranchLeaf(n, p, e1, e2, bid) ==
    << Node(n, p, "SUBDIVISION", "INDEX0", V77, FALSE, 0),
       Node(n + 1, p, "SUBDIVISION", "INDEX0", V88, FALSE, 0),
       Node(n + 2, p, "UNIT", "INDEX0", NoValue, TRUE, 0),
       Node(n + 3, n, "UNIT", "INDEX3", e1, TRUE, 0),
       Node(n + 4, n, "UNIT", "INDEX3", NoValue, FALSE, bid),
       Node(n + 5, n + 1, "UNIT", "INDEX3", e2, TRUE, 0),
       Node(n + 6, n + 1, "UNIT", "INDEX3", NoValue, FALSE, bid) >>

LeafRows(leaf, n, p) ==
    CASE leaf.k = "cl3" -> Cl3Leaf(n, p, leaf.excl, leaf.bid)
      [] leaf.k = "cl3item" -> Cl3ItemLeaf(n, p, leaf.excl, leaf.items, leaf.bid)
      [] leaf.k = "cl1unit" -> Cl1UnitLeaf(n, p, leaf.unit, leaf.bid)
      [] leaf.k = "branches" -> TwoBranchLeaf(n, p, leaf.e1, leaf.e2, leaf.bid)

(* Root, an optional CL0 level, an optional CL1 level, then the leaf level. *)
(* CL0 units are siblings of the CL0 subdivision when there is one, and     *)
(* form the leaf level otherwise.                                           *)
TreeOf(c0, c1, units, leaf) ==
    LET l0 == IF c0 # NoValue THEN Level(2, 1, "INDEX0", c0) ELSE <<>>
        u0 == IF c0 # NoValue THEN UnitRows(4, 1, units) ELSE <<>>
        p0 == IF c0 # NoValue THEN 2 ELSE 1
        n0 == 2 + Len(l0) + Len(u0)
        l1 == IF c1 # NoValue THEN Level(n0, p0, "INDEX1", c1) ELSE <<>>
        p1 == IF c1 # NoValue THEN n0 ELSE p0
        n1 == n0 + Len(l1)
    IN  <<RootNode>> \o l0 \o u0 \o l1 \o
        (IF c0 = NoValue /\ units # <<>>
         THEN Cl0UnitLeaf(n1, p1, units)
         ELSE LeafRows(leaf, n1, p1))

(* Structure the remote system keeps: one parentless root, every other row *)
(* under a subdivision, exactly one OTHERS child per subdivision, no two    *)
(* siblings with the same value.                                            *)
ValidTree(t) ==
    \/ t = <<>>
    \/ /\ Cardinality({i \in DOMAIN t : t[i].parent = 0}) = 1
       /\ \A i, j \in DOMAIN t : i # j => t[i].id # t[j].id
       /\ \A i \in DOMAIN t :
             t[i].parent # 0 =>
                \E j \in DOMAIN t :
                    t[j].id = t[i].parent /\ t[j].kind = "SUBDIVISION"
       /\ \A i \in DOMAIN t :
             t[i].kind = "SUBDIVISION" =>
                Cardinality({j \in DOMAIN t :
                    t[j].parent = t[i].id /\ t[j].value = NoValue}) = 1
       /\ \A i, j \in DOMAIN t :
             (i # j /\ t[i].parent # 0) => ~SameFolded(t[i], t[j])

----------------------------------------------------------------------------
(* The state as a record, so that each step of a builder is a function of  *)
(* the state and of its inputs.                                             *)

NoResponse == [status |-> "none", results |-> <<>>]

(* No sheet processor and no worker is running *)
NoSheet ==
    [name |-> "", rows |-> <<>>, groups |-> <<>>, at |-> 0, phase |-> "none",
     ag |-> 0, ad_groups_processed |-> {}, ad_group_errors |-> {},
     rows0 |-> <<>>, plan |-> 0, shop_results |-> <<>>,
     campaigns_found |-> 0, attempt |-> 0, retry_delay |-> 0,
     delays |-> <<>>, retrying |-> FALSE, run |-> 0]

NoThreads == [at |-> <<>>, reg |-> <<>>, got |-> <<>>]

EmptyLoc ==
    [old |-> <<>>, requested |-> <<>>, existing |-> <<>>, shops |-> <<>>,
     req0 |-> NoValue, req1 |-> NoValue, tree0 |-> NoValue, tree1 |-> NoValue,
     cl0 |-> NoValue, cl1 |-> NoValue, bid |-> 0, items |-> <<>>,
     units |-> <<>>, dropped |-> <<>>, hasC0 |-> FALSE, hasC1 |-> FALSE,
     deepestTmp |-> 0, convTmps |-> <<>>, cl0_actual |-> 0, cl1_actual |-> 0,
     cl3_others_actual |-> 0, shop |-> NoValue, maincats |-> <<>>,
     operations |-> <<>>, batch_size |-> 0, i |-> 0, mode |-> "", k |-> 0,
     success_count |-> 0, error_count |-> 0, errors |-> <<>>,
     rows |-> <<>>, success |-> <<>>, already_excluded |-> <<>>,
     not_found |-> <<>>, before |-> {}]

Cur ==
    [tree |-> tree, nextReal |-> nextReal, tempCounter |-> tempCounter,
     pc |-> pc, fn |-> fn, batchNo |-> batchNo, inflight |-> inflight,
     response |-> response, placed |-> placed, calls |-> calls,
     result |-> result, err |-> err, warn |-> warn, runs |-> runs,
     loc |-> loc, reads |-> reads, sheet |-> sheet, threads |-> threads]

Set(s) ==
    /\ tree' = s.tree
    /\ nextReal' = s.nextReal
    /\ tempCounter' = s.tempCounter
    /\ pc' = s.pc
    /\ fn' = s.fn
    /\ batchNo' = s.batchNo
    /\ inflight' = s.inflight
    /\ response' = s.response
    /\ placed' = s.placed
    /\ calls' = s.calls
    /\ result' = s.result
    /\ err' = s.err
    /\ warn' = s.warn
    /\ runs' = s.runs
    /\ loc' = s.loc
    /\ reads' = s.reads
    /\ sheet' = s.sheet
    /\ threads' = s.threads

(* A builder is called *)
Begin(s, f) ==
    [s EXCEPT !.fn = f, !.runs = s.runs + 1, !.batchNo = 0, !.inflight = <<>>,
              !.response = NoResponse, !.placed = {}, !.calls = <<>>,
              !.result = "none", !.err = "", !.warn = {}, !.reads = <<>>,
              !.loc = [EmptyLoc EXCEPT !.old = s.tree]]

(* The builder raises: its caller sees a failure *)
Raise(s, e) == [s EXCEPT !.pc = "idle", !.result = "failure", !.err = e]

(* The builder returns normally *)
Return(s) == [s EXCEPT !.pc = "idle", !.result = "success"]

(* agc_service.mutate_ad_group_criteria(operations=ops): every operation   *)
(* took one next_id(), the last one the counter's current value.            *)
Submit(s, ops) ==
    [s EXCEPT !.pc = "wait", !.inflight = ops, !.batchNo = s.batchNo + 1,
              !.calls = Append(s.calls, "create"),
              !.tempCounter = IF ops = <<>> THEN s.tempCounter
                              ELSE ops[Len(ops)].tmp]

(* agc_service.mutate_ad_group_criteria(operations=ops) with operations    *)
(* that were built before                                                    *)
Send(s, ops) ==
    [s EXCEPT !.pc = "wait", !.inflight = ops, !.batchNo = s.batchNo + 1,
              !.calls = Append(s.calls, "create")]

(* A tree read was answered, or raised *)
Read(s, ok) ==
    [s EXCEPT !.reads = Append(s.reads, IF ok THEN "ok" ELSE "failed")]

(* list_listing_groups_with_depth: the rows of the ad group, or no rows     *)
(* when the search raises ("except Exception: return [], 0")                *)
ListRows(t, readOk) == IF readOk THEN t ELSE <<>>

(* safe_remove_entire_listing_tree once it holds the rows: it returns when *)
(* there are none and when none of them is parentless, else it removes the  *)
(* first parentless row and lets a failure of that call through.            *)
SafeRemoveRows(s, rows, rmOk) ==
    LET roots == SelectSeq(rows, LAMBDA r : r.parent = 0)
    IN  IF rows = <<>> THEN s
        ELSE IF roots = <<>> THEN s
        ELSE IF rmOk
        THEN [s EXCEPT !.calls = Append(s.calls, "remove"),
                       !.tree = RemoveCascade(s.tree, roots[1].id)]
        ELSE Raise([s EXCEPT !.calls = Append(s.calls, "remove")], "remove")

SafeRemove(s, readOk, rmOk) ==
    SafeRemoveRows(Read(s, readOk), ListRows(s.tree, readOk), rmOk)

(* The remote system answers the batch in flight *)
RemoteMutate ==
    /\ pc = "wait"
    /\ \E o \in MutateOutcomes(inflight, tree, nextReal) :
          LET new == CreatedNodes(inflight, nextReal)
              ids == [j \in DOMAIN inflight |-> RealAt(nextReal, j)]
          IN  IF o = "ok"
              THEN /\ tree' = tree \o new
                   /\ nextReal' = nextReal + Len(inflight)
                   /\ response' = [status |-> "ok", results |-> ids]
                   /\ placed' = placed \cup
                          {[tmp |-> inflight[j].tmp, id |-> ids[j]] :
                              j \in DOMAIN inflight}
              ELSE /\ response' = [status |-> o, results |-> <<>>]
                   /\ UNCHANGED <<tree, nextReal, placed>>
    /\ pc' = "resp"
    /\ UNCHANGED <<tempCounter, fn, batchNo, inflight, calls, result, err,
                   warn, runs, loc, reads, sheet, threads>>

----------------------------------------------------------------------------
(* rebuild_tree_with_shop_exclusions (campaign_processor.py)               *)

(* The ad group name ends with _a, _b or _c: CL1 must be that letter *)
RequiredCl1(ad_group_name) ==
    IF ad_group_name = NoValue THEN NoValue
    ELSE IF EndsWith(ad_group_name, <<"_", "a">>) THEN <<"a">>
    ELSE IF EndsWith(ad_group_name, <<"_", "b">>) THEN <<"b">>
    ELSE IF EndsWith(ad_group_name, <<"_", "c">>) THEN <<"c">>
    ELSE NoValue

LastValue(rows) == IF rows = <<>> THEN NoValue ELSE rows[Len(rows)].value

(* cl0_value, cl1_value after the loop over the rows: the last row wins *)
TreeCl0(t) ==
    LastValue(SelectSeq(t, LAMBDA r : r.axis = "INDEX0" /\ r.value # NoValue))

TreeCl1(t) ==
    LastValue(SelectSeq(t, LAMBDA r : r.axis = "INDEX1" /\ r.value # NoValue))

(* existing_shop_exclusions: negative CL3 units with a value *)
ExistingShopExclusions(t) ==
    ValuesOf(SelectSeq(t, LAMBDA r :
        r.axis = "INDEX3" /\ r.value # NoValue /\ r.kind = "UNIT" /\ r.neg))

ItemIdExclusions_Dropped(t) == <<>>

(* item_id_exclusions: negative item-id rows *)
ItemIdExclusions(t) ==
    ValuesOf(SelectSeq(t, LAMBDA r :
        r.axis = "ITEM" /\ r.value # NoValue /\ r.neg))

(* existing_bid: the bid of the last positive unit among the rows that     *)
(* carry a custom attribute; the test sits inside                           *)
(* "if case_value.product_custom_attribute:".                              *)
ExistingBid(t, default_bid_micros) ==
    LET m == SelectSeq(t, LAMBDA r :
                 r.axis \in CustomAxes /\ r.kind = "UNIT" /\ ~r.neg /\ r.bid # 0)
    IN  IF m = <<>> THEN default_bid_micros ELSE m[Len(m)].bid

(* The loop over shop_names: a shop is added unless its lower-cased name   *)
(* is a key of existing_lower, and becomes a key once added.                *)
RECURSIVE MergeLoop(_, _, _)
MergeLoop(shop_names, existing_lower, all_shop_exclusions) ==
    IF shop_names = <<>> THEN all_shop_exclusions
    ELSE LET shop == Head(shop_names)
         IN  IF Lower(shop) \notin existing_lower
             THEN MergeLoop(Tail(shop_names), existing_lower \cup {Lower(shop)},
                            all_shop_exclusions \cup {shop})
             ELSE MergeLoop(Tail(shop_names), existing_lower,
                            all_shop_exclusions)

MergeExclusions_CaseSensitive(existing_shop_exclusions, shop_names) ==
    Range(existing_shop_exclusions) \cup Range(shop_names)

MergeExclusions(existing_shop_exclusions, shop_names) ==
    MergeLoop(shop_names,
              {Lower(e) : e \in Range(existing_shop_exclusions)},
              Range(existing_shop_exclusions))

(* MUTATE 1: ROOT, CL0 subdivision, CL1 OTHERS under CL0, CL0 OTHERS *)
ShopExclOps1(c, cl0_value) ==
    LET root_tmp == NextId(c)
        cl0_subdivision_tmp == NextId(root_tmp)
        t3 == NextId(cl0_subdivision_tmp)
        t4 == NextId(t3)
    IN  << SubOp(root_tmp, 0, "ROOT", NoValue),
           SubOp(cl0_subdivision_tmp, root_tmp, "INDEX0", cl0_value),
           UnitOp(t3, cl0_subdivision_tmp, "INDEX1", NoValue, TRUE, 0),
           UnitOp(t4, root_tmp, "INDEX0", NoValue, TRUE, 0) >>

(* MUTATE 2: CL1 subdivision and CL3 OTHERS, a subdivision holding ITEM    *)
(* OTHERS when item ids are preserved, else a positive unit                 *)
ShopExclOps2(c, cl0_actual, cl1_value, has_item_ids, existing_bid) ==
    LET cl1_subdivision_tmp == NextId(c)
        cl3_others_tmp == NextId(cl1_subdivision_tmp)
        t3 == NextId(cl3_others_tmp)
    IN  IF has_item_ids
        THEN << SubOp(cl1_subdivision_tmp, cl0_actual, "INDEX1", cl1_value),
                SubOp(cl3_others_tmp, cl1_subdivision_tmp, "INDEX3", NoValue),
                UnitOp(t3, cl3_others_tmp, "ITEM", NoValue, FALSE,
                       existing_bid) >>
        ELSE << SubOp(cl1_subdivision_tmp, cl0_actual, "INDEX1", cl1_value),
                UnitOp(cl3_others_tmp, cl1_subdivision_tmp, "INDEX3", NoValue,
                       FALSE, existing_bid) >>

(* Ids taken by n operations created one after the other *)
RECURSIVE NthId(_, _)
NthId(c, n) == IF n = 0 THEN c ELSE NextId(NthId(c, n - 1))

(* MUTATE 3: one negative CL3 unit per shop under the CL1 subdivision *)
ShopExclOps3(c, cl1_actual, shop_names) ==
    [i \in 1..Len(shop_names) |->
        UnitOp(NthId(c, i), cl1_actual, "INDEX3", shop_names[i], TRUE, 0)]

(* MUTATE 4: one negative item-id unit per preserved id under CL3 OTHERS *)
ShopExclOps4(c, cl3_others_actual, item_id_exclusions) ==
    [i \in 1..Len(item_id_exclusions) |->
        UnitOp(NthId(c, i), cl3_others_actual, "ITEM", item_id_exclusions[i],
               TRUE, 0)]

Override_Guess(required, existing) ==
    IF required # NoValue THEN required
    ELSE IF existing # NoValue THEN existing ELSE V77

Override_TreeWins(required, existing) ==
    IF existing # NoValue THEN existing ELSE required

(* "if required_cl0_value: cl0_value = required_cl0_value": the supplied   *)
(* value wins over the value read from the tree                             *)
Override(required, existing) ==
    IF required # NoValue THEN required ELSE existing

(* Lines 987-1121: what the builder derives before it touches the tree *)
ShopExclLocals(s, shop_names, required_cl0_value, ad_group_name) ==
    LET required_cl1 == RequiredCl1(ad_group_name)
        tree0 == TreeCl0(s.tree)
        tree1 == TreeCl1(s.tree)
        existing == ExistingShopExclusions(s.tree)
    IN  [s.loc EXCEPT
            !.requested = shop_names,
            !.existing = existing,
            !.req0 = required_cl0_value,
            !.req1 = required_cl1,
            !.tree0 = tree0,
            !.tree1 = tree1,
            !.cl0 = Override(required_cl0_value, tree0),
            !.cl1 = Override(required_cl1, tree1),
            !.bid = ExistingBid(s.tree, DEFAULT_BID_MICROS),
            !.items = ItemIdExclusions(s.tree)]

(* The two "WARNING: Tree has ... but ... requires ..." prints *)
ShopExclWarnings(l) ==
    {"CL0" : x \in {1} \cap
        (IF l.req0 # NoValue /\ l.tree0 # NoValue /\ l.tree0 # l.req0
         THEN {1} ELSE {})}
    \cup
    {"CL1" : x \in {1} \cap
        (IF l.req1 # NoValue /\ l.tree1 # NoValue /\ l.tree1 # l.req1
         THEN {1} ELSE {})}

(* The call up to its first creation batch. sorted_shops is the order      *)
(* sorted() gave the merged set.                                            *)
ShopExclStart(s0, shop_names, required_cl0_value, ad_group_name, readOk, rmReadOk, rmOk, sorted_shops) ==
    LET b == Begin(s0, "shop_excl")
        s == [b EXCEPT !.loc.requested = shop_names,
                       !.loc.req0 = required_cl0_value,
                       !.loc.req1 = RequiredCl1(ad_group_name)]
    IN  IF ~readOk THEN Raise(Read(s, FALSE), "read")
        ELSE
        LET l == ShopExclLocals(s, shop_names, required_cl0_value,
                                ad_group_name)
            s1 == [Read(s, TRUE) EXCEPT !.loc = l,
                                        !.warn = ShopExclWarnings(l)]
        IN  IF l.cl0 = NoValue THEN Raise(s1, "CL0")
            ELSE IF l.cl1 = NoValue THEN Raise(s1, "CL1")
            ELSE
            LET s2 == SafeRemove([s1 EXCEPT !.loc.shops = sorted_shops],
                                 rmReadOk, rmOk)
            IN  IF s2.result = "failure" THEN s2
                ELSE Submit(s2, ShopExclOps1(s2.tempCounter, l.cl0))

(* The call after a creation batch was answered *)
ShopExclResume(s) ==
    LET l == s.loc
        res == s.response.results
    IN  IF s.response.status # "ok"
        THEN Raise(s, CASE s.batchNo = 1 -> "ROOT and CL0"
                        [] s.batchNo = 2 -> "CL1 and CL3 OTHERS"
                        [] s.batchNo = 3 -> "shop exclusions"
                        [] OTHER -> "item ID exclusions")
        ELSE CASE s.batchNo = 1 ->
                    LET cl0_actual == Res(res, 1)
                    IN  Submit([s EXCEPT !.loc.cl0_actual = cl0_actual],
                               ShopExclOps2(s.tempCounter, cl0_actual, l.cl1,
                                            l.items # <<>>, l.bid))
               [] s.batchNo = 2 ->
                    LET cl1_actual == Res(res, 0)
                        cl3_others_actual ==
                            IF l.items # <<>> THEN Res(res, 1) ELSE 0
                    IN  Submit([s EXCEPT
                                   !.loc.cl1_actual = cl1_actual,
                                   !.loc.cl3_others_actual = cl3_others_actual],
                               ShopExclOps3(s.tempCounter, cl1_actual, l.shops))
               [] s.batchNo = 3 ->
                    IF l.items # <<>>
                    THEN Submit(s, ShopExclOps4(s.tempCounter,
                                                l.cl3_others_actual, l.items))
                    ELSE Return(s)
               [] OTHER -> Return(s)

----------------------------------------------------------------------------
(* rebuild_tree_with_shop_exclusions (rebuild_campaigns_without_cl2_cl3.py) *)

(* MUTATE 1: ROOT, CL0 subdivision, CL0 OTHERS *)
ScriptOps1(c, diepste_cat_id) ==
    LET root_tmp == NextId(c)
        cl0_tmp == NextId(root_tmp)
    IN  << SubOp(root_tmp, 0, "ROOT", NoValue),
           SubOp(cl0_tmp, root_tmp, "INDEX0", diepste_cat_id),
           UnitOp(NextId(cl0_tmp), root_tmp, "INDEX0", NoValue, TRUE, 0) >>

(* MUTATE 2: CL1 subdivision and CL1 OTHERS, both under the CL0 node *)
ScriptOps2(c, cl0_actual, custom_label_1) ==
    LET cl1_tmp == NextId(c)
    IN  << SubOp(cl1_tmp, cl0_actual, "INDEX1", custom_label_1),
           UnitOp(NextId(cl1_tmp), cl0_actual, "INDEX1", NoValue, TRUE, 0) >>

(* MUTATE 3: a negative CL3 unit per shop, then the positive CL3 OTHERS *)
ScriptOps3(c, cl1_actual, shop_names, default_bid_micros) ==
    [i \in 1..Len(shop_names) |->
        UnitOp(NthId(c, i), cl1_actual, "INDEX3", shop_names[i], TRUE, 0)]
    \o << UnitOp(NthId(c, Len(shop_names) + 1), cl1_actual, "INDEX3", NoValue,
                 FALSE, default_bid_micros) >>

ScriptStart(s0, diepste_cat_id, custom_label_1, shop_names, rmReadOk, rmOk) ==
    LET b == Begin(s0, "script")
        s == SafeRemove([b EXCEPT !.loc.cl0 = diepste_cat_id,
                                  !.loc.cl1 = custom_label_1,
                                  !.loc.shops = shop_names,
                                  !.loc.bid = DEFAULT_BID_MICROS],
                        rmReadOk, rmOk)
    IN  IF s.result = "failure" THEN s
        ELSE Submit(s, ScriptOps1(s.tempCounter, diepste_cat_id))

ScriptResume(s) ==
    LET res == s.response.results
    IN  IF s.response.status # "ok"
        THEN Raise(s, CASE s.batchNo = 1 -> "ROOT and CL0"
                        [] s.batchNo = 2 -> "CL1"
                        [] OTHER -> "shop exclusions")
        ELSE CASE s.batchNo = 1 ->
                    Submit([s EXCEPT !.loc.cl0_actual = Res(res, 1)],
                           ScriptOps2(s.tempCounter, Res(res, 1), s.loc.cl1))
               [] s.batchNo = 2 ->
                    Submit([s EXCEPT !.loc.cl1_actual = Res(res, 0)],
                           ScriptOps3(s.tempCounter, Res(res, 0), s.loc.shops,
                                      s.loc.bid))
               [] OTHER -> Return(s)

----------------------------------------------------------------------------
(* rebuild_tree_with_custom_label_3_inclusion *)

(* MUTATE 1: root and the negative CL3 OTHERS *)
Cl3InclOps1(c) ==
    LET root_tmp == NextId(c)
    IN  << SubOp(root_tmp, 0, "ROOT", NoValue),
           UnitOp(NextId(root_tmp), root_tmp, "INDEX3", NoValue, TRUE, 0) >>

Cl3InclOps2_OwnBid(c, root_actual, shop_name, default_bid_micros) ==
    << UnitOp(NextId(c), root_actual, "INDEX3", shop_name, FALSE,
              DEFAULT_BID_MICROS) >>

(* MUTATE 2: the positive CL3 = shop unit *)
Cl3InclOps2(c, root_actual, shop_name, default_bid_micros) ==
    << UnitOp(NextId(c), root_actual, "INDEX3", shop_name, FALSE,
              default_bid_micros) >>

Cl3InclStart(s0, shop_name, default_bid_micros, rmReadOk, rmOk) ==
    LET b == Begin(s0, "cl3_incl")
        s == SafeRemove([b EXCEPT !.loc.shop = shop_name,
                                  !.loc.bid = default_bid_micros],
                        rmReadOk, rmOk)
    IN  IF s.result = "failure" THEN s
        ELSE Submit(s, Cl3InclOps1(s.tempCounter))

Cl3InclResume(s) ==
    IF s.response.status # "ok" THEN Raise(s, "mutate")
    ELSE IF s.batchNo = 1
    THEN Submit(s, Cl3InclOps2(s.tempCounter, Res(s.response.results, 0),
                               s.loc.shop, s.loc.bid))
    ELSE Return(s)

----------------------------------------------------------------------------
(* rebuild_tree_with_custom_label_3_exclusion *)

(* Rows collected for preservation: custom-label rows with a value, except *)
(* CL2 and CL3                                                              *)
Collected(t, kind) ==
    SelectSeq(t, LAMBDA r :
        /\ r.axis \in CustomAxes
        /\ r.axis \notin {"INDEX2", "INDEX3"}
        /\ r.value # NoValue
        /\ r.kind = kind)

OnAxis(rows, axis) == SelectSeq(rows, LAMBDA r : r.axis = axis)

(* A subdivision under parent with its negative OTHERS sibling *)
AddLevel(a, axis, value) ==
    LET t == NextId(a.c)
    IN  [ops |-> a.ops \o << SubOp(t, a.parent, axis, value),
                             UnitOp(NextId(t), a.parent, axis, NoValue, TRUE,
                                    0) >>,
         parent |-> t, c |-> NextId(t)]

(* ops1 with the placeholder of the deepest rebuilt subdivision and those  *)
(* of the subdivisions made from the CL0 units                              *)
Cl3ExclPlan(c, cl0_subdivisions, cl1_subdivisions, cl0_units, default_bid_micros) ==
    LET root_tmp == NextId(c)
        a0 == [ops |-> << SubOp(root_tmp, 0, "ROOT", NoValue) >>,
               parent |-> root_tmp, c |-> root_tmp]
        a1 == IF cl0_subdivisions # <<>>
              THEN AddLevel(a0, "INDEX0", cl0_subdivisions[1].value) ELSE a0
        a2 == IF cl1_subdivisions # <<>>
              THEN AddLevel(a1, "INDEX1", cl1_subdivisions[1].value) ELSE a1
        deepest == a2.parent
        conv == [i \in 1..Len(cl0_units) |-> NthId(a2.c, 2 * i - 1)]
    IN  [ops |->
            a2.ops \o
            (IF cl0_units # <<>>
             THEN Flatten([i \in 1..Len(cl0_units) |->
                      << SubOp(conv[i], deepest, "INDEX0", cl0_units[i].value),
                         UnitOp(NextId(conv[i]), conv[i], "INDEX3", NoValue,
                                FALSE, cl0_units[i].bid) >>])
                  \o << UnitOp(NthId(a2.c, 2 * Len(cl0_units) + 1), deepest,
                               "INDEX0", NoValue, TRUE, 0) >>
             ELSE << UnitOp(NextId(a2.c), deepest, "INDEX3", NoValue, FALSE,
                            default_bid_micros) >>),
         deepest |-> deepest,
         conv |-> conv]

Cl3ExclOps1(c, cl0_subdivisions, cl1_subdivisions, cl0_units, default_bid_micros) ==
    Cl3ExclPlan(c, cl0_subdivisions, cl1_subdivisions, cl0_units,
                default_bid_micros).ops

BaseIndex_Fixed(hasC0, hasC1) == 1

(* base_index: the position of the first converted CL0 subdivision *)
BaseIndex(hasC0, hasC1) ==
    1 + (IF hasC0 THEN 2 ELSE 0) + (IF hasC1 THEN 2 ELSE 0)

(* The position of the deepest rebuilt subdivision *)
DeepestIndex(hasC0, hasC1) ==
    IF hasC1 THEN (IF hasC0 THEN 3 ELSE 1)
    ELSE IF hasC0 THEN 1 ELSE 0

(* MUTATE 2: the negative CL3 = shop unit under each converted CL0         *)
(* subdivision, or under the deepest subdivision                            *)
Cl3ExclOps2(c, results, hasC0, hasC1, cl0_units, shop_name) ==
    IF cl0_units # <<>>
    THEN [i \in 1..Len(cl0_units) |->
            UnitOp(NthId(c, i),
                   Res(results, BaseIndex(hasC0, hasC1) + ((i - 1) * 2)),
                   "INDEX3", shop_name, TRUE, 0)]
    ELSE << UnitOp(NextId(c), Res(results, DeepestIndex(hasC0, hasC1)),
                   "INDEX3", shop_name, TRUE, 0) >>

Cl3ExclStart(s0, shop_name, default_bid_micros, readOk, rmReadOk, rmOk) ==
    LET b0 == Begin(s0, "cl3_excl")
        b == Read(b0, readOk)
    IN  IF ~readOk THEN Raise(b, "read")
        ELSE
        LET custom_label_subdivisions == Collected(b.tree, "SUBDIVISION")
            custom_label_structures == Collected(b.tree, "UNIT")
            cl0_subdivisions == OnAxis(custom_label_subdivisions, "INDEX0")
            cl1_subdivisions == OnAxis(custom_label_subdivisions, "INDEX1")
            cl0_units == OnAxis(custom_label_structures, "INDEX0")
            cl1_units == OnAxis(custom_label_structures, "INDEX1")
            s == SafeRemove([b EXCEPT !.loc.shop = shop_name,
                                      !.loc.bid = default_bid_micros,
                                      !.loc.units = cl0_units,
                                      !.loc.dropped = cl1_units,
                                      !.loc.hasC0 = cl0_subdivisions # <<>>,
                                      !.loc.hasC1 = cl1_subdivisions # <<>>],
                            rmReadOk, rmOk)
            plan == Cl3ExclPlan(s.tempCounter, cl0_subdivisions,
                                cl1_subdivisions, cl0_units,
                                default_bid_micros)
        IN  IF s.result = "failure" THEN s
            ELSE Submit([s EXCEPT !.loc.deepestTmp = plan.deepest,
                                  !.loc.convTmps = plan.conv],
                        Cl3ExclOps1(s.tempCounter, cl0_subdivisions,
                                    cl1_subdivisions, cl0_units,
                                    default_bid_micros))

Cl3ExclResume(s) ==
    IF s.response.status # "ok" THEN Raise(s, "mutate")
    ELSE IF s.batchNo = 1
    THEN Submit(s, Cl3ExclOps2(s.tempCounter, s.response.results,
                               s.loc.hasC0, s.loc.hasC1, s.loc.units,
                               s.loc.shop))
    ELSE Return(s)

----------------------------------------------------------------------------
(* build_listing_tree_for_inclusion, _inclusion_v2, _uitbreiding *)

(* "Listing tree already exists - skipping": the existence query returns a *)
(* row. A query that raises is passed over.                                 *)
TreeSeen(s, checkOk) == checkOk /\ s.tree # <<>>

(* MUTATE 1: root, CL3 = shop, CL3 OTHERS, CL4 = maincat, CL4 OTHERS, and  *)
(* CL1 OTHERS under the maincat subdivision                                 *)
InclOps1(c, shop_name, maincat_id) ==
    LET root_tmp == NextId(c)
        cl3_subdivision_tmp == NextId(root_tmp)
        t3 == NextId(cl3_subdivision_tmp)
        maincat_subdivision_tmp == NextId(t3)
        t5 == NextId(maincat_subdivision_tmp)
    IN  << SubOp(root_tmp, 0, "ROOT", NoValue),
           SubOp(cl3_subdivision_tmp, root_tmp, "INDEX3", shop_name),
           UnitOp(t3, root_tmp, "INDEX3", NoValue, TRUE, 0),
           SubOp(maincat_subdivision_tmp, cl3_subdivision_tmp, "INDEX4",
                 maincat_id),
           UnitOp(t5, cl3_subdivision_tmp, "INDEX4", NoValue, TRUE, 0),
           UnitOp(NextId(t5), maincat_subdivision_tmp, "INDEX1", NoValue,
                  TRUE, 0) >>

(* MUTATE 2: the positive CL1 unit under the maincat subdivision *)
InclOps2(c, maincat_subdivision_actual, custom_label_1) ==
    << UnitOp(NextId(c), maincat_subdivision_actual, "INDEX1", custom_label_1,
              FALSE, UNIT_BID_MICROS) >>

InclStart(s0, custom_label_1, maincat_id, shop_name, checkOk) ==
    LET b == Read(Begin(s0, "incl"), checkOk)
        s == [b EXCEPT !.loc.cl1 = custom_label_1,
                       !.loc.maincats = <<maincat_id>>,
                       !.loc.shop = shop_name]
    IN  IF TreeSeen(s, checkOk) THEN Return(s)
        ELSE Submit(s, InclOps1(s.tempCounter, shop_name, maincat_id))

InclResume(s) ==
    IF s.response.status # "ok" THEN Raise(s, "mutate")
    ELSE IF s.batchNo = 1
    THEN Submit(s, InclOps2(s.tempCounter, Res(s.response.results, 3),
                            s.loc.cl1))
    ELSE Return(s)

(* MUTATE 1: root, CL3 = shop, CL3 OTHERS, CL4 OTHERS under the shop *)
InclV2Ops1(c, shop_name) ==
    LET root_tmp == NextId(c)
        cl3_subdivision_tmp == NextId(root_tmp)
        t3 == NextId(cl3_subdivision_tmp)
    IN  << SubOp(root_tmp, 0, "ROOT", NoValue),
           SubOp(cl3_subdivision_tmp, root_tmp, "INDEX3", shop_name),
           UnitOp(t3, root_tmp, "INDEX3", NoValue, TRUE, 0),
           UnitOp(NextId(t3), cl3_subdivision_tmp, "INDEX4", NoValue, TRUE,
                  0) >>

(* MUTATE 2: one positive CL4 unit per maincat id under the shop *)
InclV2Ops2(c, cl3_subdivision_actual, maincat_ids) ==
    [i \in 1..Len(maincat_ids) |->
        UnitOp(NthId(c, i), cl3_subdivision_actual, "INDEX4", maincat_ids[i],
               FALSE, UNIT_BID_MICROS)]

InclV2Start(s0, shop_name, maincat_ids, checkOk) ==
    LET b == Read(Begin(s0, "incl_v2"), checkOk)
        s == [b EXCEPT !.loc.maincats = maincat_ids, !.loc.shop = shop_name]
    IN  IF TreeSeen(s, checkOk) THEN Return(s)
        ELSE Submit(s, InclV2Ops1(s.tempCounter, shop_name))

InclV2Resume(s) ==
    IF s.response.status # "ok" THEN Raise(s, "mutate")
    ELSE IF s.batchNo = 1
    THEN Submit(s, InclV2Ops2(s.tempCounter, Res(s.response.results, 1),
                              s.loc.maincats))
    ELSE Return(s)

(* MUTATE 1: root, CL1 subdivision, CL3 OTHERS under it, CL1 OTHERS *)
UitbrOps1(c, custom_label_1) ==
    LET root_tmp == NextId(c)
        cl1_subdivision_tmp == NextId(root_tmp)
        t3 == NextId(cl1_subdivision_tmp)
    IN  << SubOp(root_tmp, 0, "ROOT", NoValue),
           SubOp(cl1_subdivision_tmp, root_tmp, "INDEX1", custom_label_1),
           UnitOp(t3, cl1_subdivision_tmp, "INDEX3", NoValue, TRUE, 0),
           UnitOp(NextId(t3), root_tmp, "INDEX1", NoValue, TRUE, 0) >>

UitbrOps2_Placeholder(c, cl1_subdivision_actual, shop_name) ==
    LET cl3_subdivision_tmp == NextId(c)
    IN  << SubOp(cl3_subdivision_tmp, c + 2, "INDEX3", shop_name),
           UnitOp(NextId(cl3_subdivision_tmp), cl3_subdivision_tmp, "INDEX4",
                  NoValue, TRUE, 0) >>

(* MUTATE 2: CL3 = shop under the CL1 node, CL4 OTHERS under the shop *)
UitbrOps2(c, cl1_subdivision_actual, shop_name) ==
    LET cl3_subdivision_tmp == NextId(c)
    IN  << SubOp(cl3_subdivision_tmp, cl1_subdivision_actual, "INDEX3",
                 shop_name),
           UnitOp(NextId(cl3_subdivision_tmp), cl3_subdivision_tmp, "INDEX4",
                  NoValue, TRUE, 0) >>

(* MUTATE 3: the positive CL4 = maincat unit under the shop *)
UitbrOps3(c, cl3_subdivision_actual, maincat_id) ==
    << UnitOp(NextId(c), cl3_subdivision_actual, "INDEX4", maincat_id, FALSE,
              UNIT_BID_MICROS) >>

UitbrStart(s0, shop_name, maincat_id, custom_label_1, checkOk) ==
    LET b == Read(Begin(s0, "uitbreiding"), checkOk)
        s == [b EXCEPT !.loc.cl1 = custom_label_1,
                       !.loc.maincats = <<maincat_id>>,
                       !.loc.shop = shop_name]
    IN  IF TreeSeen(s, checkOk) THEN Return(s)
        ELSE Submit(s, UitbrOps1(s.tempCounter, custom_label_1))

UitbrResume(s) ==
    LET res == s.response.results
    IN  IF s.response.status # "ok" THEN Raise(s, "mutate")
        ELSE CASE s.batchNo = 1 ->
                    Submit(s, UitbrOps2(s.tempCounter, Res(res, 1), s.loc.shop))
               [] s.batchNo = 2 ->
                    Submit(s, UitbrOps3(s.tempCounter, Res(res, 0),
                                        s.loc.maincats[1]))
               [] OTHER -> Return(s)

----------------------------------------------------------------------------
(* Calls of rebuild_tree_with_shop_exclusions *)

Outcomes == [readOk : BOOLEAN, rmReadOk : BOOLEAN, rmOk : BOOLEAN]

Call_ShopExcl(shopLists, req0s, names) ==
    /\ pc = "idle"
    /\ \E shop_names \in shopLists, required_cl0_value \in req0s,
          ad_group_name \in names, o \in Outcomes :
          \E sorted_shops \in SortedByLower(
                  MergeExclusions(ExistingShopExclusions(tree), shop_names)) :
              Set(ShopExclStart(Cur, shop_names, required_cl0_value,
                                ad_group_name, o.readOk, o.rmReadOk, o.rmOk,
                                sorted_shops))

Resume_ShopExcl ==
    /\ pc = "resp"
    /\ fn = "shop_excl"
    /\ Set(ShopExclResume(Cur))

InitWith(trees) ==
    /\ tree \in {t \in trees : ValidTree(t)}
    /\ nextReal = Len(tree) + 1
    /\ tempCounter = -1
    /\ pc = "idle"
    /\ fn = "none"
    /\ batchNo = 0
    /\ inflight = <<>>
    /\ response = NoResponse
    /\ placed = {}
    /\ calls = <<>>
    /\ result = "none"
    /\ err = ""
    /\ warn = {}
    /\ runs = 0
    /\ loc = EmptyLoc
    /\ reads = <<>>
    /\ sheet = NoSheet
    /\ threads = NoThreads

(* Trees the shop-exclusion rebuild meets: none, trees with or without the *)
(* CL0 and CL1 levels and exclusions under them, a tree this builder left   *)
(* with item ids, and a tree with two CL0 branches.                         *)
ShopExclLeaves ==
    {[k |-> "cl3", excl |-> e, bid |-> OldBid] :
        e \in {<<>>, <<xnl>>, <<XNL>>}}
    \cup {[k |-> "cl3item", excl |-> <<XNL, ynl>>, items |-> <<V99>>,
           bid |-> OldBid]}

ShopExclTrees ==
    {<<>>}
    \cup {TreeOf(c0, c1, <<>>, leaf) :
            c0 \in {NoValue, V77}, c1 \in {NoValue, Va},
            leaf \in ShopExclLeaves}
    \cup {TreeOf(NoValue, NoValue, <<>>,
                 [k |-> "branches", e1 |-> xnl, e2 |-> XNL, bid |-> OldBid])}

ShopLists == SeqsUpTo({xnl, XNL, ynl}, MaxShops)

Start_ShopExclOnce ==
    /\ runs < MaxRebuilds
    /\ Call_ShopExcl(ShopLists, {NoValue, V77, V88},
                     {NoValue, AG_a, AG_b, AG_plain})

InitShopExcl == InitWith(ShopExclTrees)

NextShopExcl ==
    \/ Start_ShopExclOnce
    \/ Resume_ShopExcl
    \/ RemoteMutate

SpecShopExcl == InitShopExcl /\ [][NextShopExcl]_vars

----------------------------------------------------------------------------
(* Properties of rebuild_tree_with_shop_exclusions *)

ShopExclRan == fn = "shop_excl" /\ err # "read"

OldExclusions ==
    {loc.old[i].value : i \in {i \in DOMAIN loc.old :
        /\ loc.old[i].axis = "INDEX3"
        /\ loc.old[i].neg
        /\ loc.old[i].value # NoValue}}

RequestedAdded ==
    {loc.requested[i] : i \in {i \in DOMAIN loc.requested :
        /\ \A e \in OldExclusions : Lower(e) # Lower(loc.requested[i])
        /\ \A j \in 1..(i - 1) :
              Lower(loc.requested[j]) # Lower(loc.requested[i])}}

(* C6: the merged exclusion list holds every negative CL3 value of the old *)
(* tree with its casing, plus each requested shop whose lower-cased name    *)
(* equals neither an old value nor an earlier requested shop, each once and *)
(* nothing else; old {x.nl} with requested X.NL, y.nl gives two entries,    *)
(* and old {X.NL} with requested x.nl, y.nl gives exactly {X.NL, y.nl}.     *)
C6MergedList ==
    (ShopExclRan /\ (batchNo >= 1 \/ err = "remove")) =>
        /\ Range(loc.shops) = OldExclusions \cup RequestedAdded
        /\ Len(loc.shops) = Cardinality(OldExclusions \cup RequestedAdded)
        /\ (OldExclusions = {xnl} /\ loc.requested = <<XNL, ynl>>)
              => Len(loc.shops) = 2
        /\ (OldExclusions = {XNL} /\ loc.requested = <<xnl, ynl>>)
              => Range(loc.shops) = {XNL, ynl}

C6Witness ==
    /\ ShopExclRan
    /\ pc = "wait"
    /\ batchNo = 3
    /\ OldExclusions = {XNL}
    /\ loc.requested = <<xnl, ynl>>
    /\ Len(inflight) = 2

(* C7: the exclusion batch of rebuild_tree_with_shop_exclusions never      *)
(* holds two shop values that are equal after lower-casing.                 *)
C7NoCaseDuplicates ==
    (ShopExclRan /\ pc = "wait" /\ batchNo = 3) =>
        \A i, j \in DOMAIN inflight :
            i # j => Lower(inflight[i].value) # Lower(inflight[j].value)

Conflict0 ==
    /\ loc.req0 # NoValue
    /\ TreeCl0(loc.old) # NoValue
    /\ TreeCl0(loc.old) # loc.req0

Conflict1 ==
    /\ loc.req1 # NoValue
    /\ TreeCl1(loc.old) # NoValue
    /\ TreeCl1(loc.old) # loc.req1

SubdivisionsOn(ops, axis) ==
    {ops[i].value : i \in {i \in DOMAIN ops :
        ops[i].kind = "SUBDIVISION" /\ ops[i].axis = axis}}

(* C8: when a CL0 value is required, or a CL1 value follows from the ad    *)
(* group name, and the value read from the tree on that axis differs, the   *)
(* subdivision created for the axis carries the required value, the warning *)
(* for the axis is printed and the run does not fail on that axis.          *)
C8OverrideWins ==
    ShopExclRan =>
        /\ Conflict0 =>
              /\ "CL0" \in warn
              /\ err # "CL0"
              /\ (pc = "wait" /\ batchNo = 1) =>
                    SubdivisionsOn(inflight, "INDEX0") = {loc.req0}
              /\ batchNo # 1 => SubdivisionsOn(inflight, "INDEX0") = {}
        /\ Conflict1 =>
              /\ "CL1" \in warn
              /\ err # "CL1"
              /\ (pc = "wait" /\ batchNo = 2) =>
                    SubdivisionsOn(inflight, "INDEX1") = {loc.req1}
              /\ batchNo # 2 => SubdivisionsOn(inflight, "INDEX1") = {}

C8Witness ==
    /\ ShopExclRan
    /\ Conflict0
    /\ Conflict1
    /\ pc = "wait"
    /\ batchNo = 2
    /\ warn = {"CL0", "CL1"}

Unresolved0 == loc.req0 = NoValue /\ TreeCl0(loc.old) = NoValue

Unresolved1 == loc.req1 = NoValue /\ TreeCl1(loc.old) = NoValue

(* C9: when neither the caller nor the tree gives the CL0 value, or the    *)
(* CL1 value, the run has failed with the error that names the axis, and    *)
(* has issued no removal and no creation batch: the tree is as it was.      *)
C9UnresolvedAxis ==
    (ShopExclRan /\ (Unresolved0 \/ Unresolved1)) =>
        /\ pc = "idle"
        /\ result = "failure"
        /\ err = (IF Unresolved0 THEN "CL0" ELSE "CL1")
        /\ calls = <<>>
        /\ batchNo = 0
        /\ tree = loc.old

C9Witness ==
    /\ ShopExclRan
    /\ ~Unresolved0
    /\ Unresolved1
    /\ err = "CL1"
    /\ tree # <<>>
    /\ calls = <<>>

----------------------------------------------------------------------------
(* Calls of the other builders *)

Call_Script(cats, labels, shopLists) ==
    /\ pc = "idle"
    /\ \E diepste_cat_id \in cats, custom_label_1 \in labels,
          shop_names \in shopLists, o \in Outcomes :
          Set(ScriptStart(Cur, diepste_cat_id, custom_label_1, shop_names,
                          o.rmReadOk, o.rmOk))

Resume_Script ==
    /\ pc = "resp"
    /\ fn = "script"
    /\ Set(ScriptResume(Cur))

Call_Cl3Incl(shops, bids) ==
    /\ pc = "idle"
    /\ \E shop_name \in shops, default_bid_micros \in bids, o \in Outcomes :
          Set(Cl3InclStart(Cur, shop_name, default_bid_micros, o.rmReadOk,
                           o.rmOk))

Resume_Cl3Incl ==
    /\ pc = "resp"
    /\ fn = "cl3_incl"
    /\ Set(Cl3InclResume(Cur))

Call_Cl3Excl(shops, bids) ==
    /\ pc = "idle"
    /\ \E shop_name \in shops, default_bid_micros \in bids, o \in Outcomes :
          Set(Cl3ExclStart(Cur, shop_name, default_bid_micros, o.readOk,
                           o.rmReadOk, o.rmOk))

Resume_Cl3Excl ==
    /\ pc = "resp"
    /\ fn = "cl3_excl"
    /\ Set(Cl3ExclResume(Cur))

Call_Incl(labels, cats, shops) ==
    /\ pc = "idle"
    /\ \E custom_label_1 \in labels, maincat_id \in cats, shop_name \in shops,
          checkOk \in BOOLEAN :
          Set(InclStart(Cur, custom_label_1, maincat_id, shop_name, checkOk))

Resume_Incl ==
    /\ pc = "resp"
    /\ fn = "incl"
    /\ Set(InclResume(Cur))

Call_InclV2(shops, catLists) ==
    /\ pc = "idle"
    /\ \E shop_name \in shops, maincat_ids \in catLists, checkOk \in BOOLEAN :
          Set(InclV2Start(Cur, shop_name, maincat_ids, checkOk))

Resume_InclV2 ==
    /\ pc = "resp"
    /\ fn = "incl_v2"
    /\ Set(InclV2Resume(Cur))

Call_Uitbr(shops, cats, labels) ==
    /\ pc = "idle"
    /\ \E shop_name \in shops, maincat_id \in cats, custom_label_1 \in labels,
          checkOk \in BOOLEAN :
          Set(UitbrStart(Cur, shop_name, maincat_id, custom_label_1, checkOk))

Resume_Uitbr ==
    /\ pc = "resp"
    /\ fn = "uitbreiding"
    /\ Set(UitbrResume(Cur))

----------------------------------------------------------------------------
(* All tree builders on one ad group, called one after the other *)

Start_ShopExcl ==
    /\ runs < MaxRuns
    /\ Call_ShopExcl({<<xnl>>, <<XNL, ynl>>}, {NoValue, V88}, {AG_a})

Start_Script ==
    /\ runs < MaxRuns
    /\ Call_Script({V77}, {Va}, {<<xnl>>, <<xnl, ynl>>})

Start_Cl3Incl ==
    /\ runs < MaxRuns
    /\ Call_Cl3Incl({xnl}, {DEFAULT_BID_MICROS, OldBid})

Start_Cl3Excl ==
    /\ runs < MaxRuns
    /\ Call_Cl3Excl({xnl}, {DEFAULT_BID_MICROS})

Start_Incl ==
    /\ runs < MaxRuns
    /\ Call_Incl({Va}, {V77}, {xnl})

Start_InclV2 ==
    /\ runs < MaxRuns
    /\ Call_InclV2({xnl}, {<<V77>>, <<V77, V88>>})

Start_Uitbr ==
    /\ runs < MaxRuns
    /\ Call_Uitbr({xnl}, {V77}, {Va})

BuilderTrees ==
    { <<>>,
      TreeOf(V77, Va, <<>>, [k |-> "cl3", excl |-> <<xnl>>, bid |-> OldBid]),
      TreeOf(NoValue, Va,
             << [value |-> V88, neg |-> FALSE, bid |-> OldBid] >>,
             [k |-> "cl3", excl |-> <<>>, bid |-> OldBid]),
      TreeOf(V77, Va, <<>>,
             [k |-> "cl3item", excl |-> <<xnl>>, items |-> <<V99>>,
              bid |-> OldBid]) }

Init == InitWith(BuilderTrees)

Next ==
    \/ Start_ShopExcl
    \/ Resume_ShopExcl
    \/ Start_Script
    \/ Resume_Script
    \/ Start_Cl3Incl
    \/ Resume_Cl3Incl
    \/ Start_Cl3Excl
    \/ Resume_Cl3Excl
    \/ Start_Incl
    \/ Resume_Incl
    \/ Start_InclV2
    \/ Resume_InclV2
    \/ Start_Uitbr
    \/ Resume_Uitbr
    \/ RemoteMutate

Spec == Init /\ [][Next]_vars

----------------------------------------------------------------------------
(* The custom-label-3 rebuilds on trees with and without a CL0 subdivision, *)
(* a CL1 subdivision and CL0 units                                          *)

UnitPool ==
    { [value |-> V88, neg |-> FALSE, bid |-> OldBid],
      [value |-> V99, neg |-> TRUE, bid |-> 0],
      [value |-> V89, neg |-> FALSE, bid |-> UNIT_BID_MICROS] }

UnitSeqs ==
    {u \in SeqsUpTo(UnitPool, MaxUnits) :
        \A i, j \in DOMAIN u : i # j => u[i] # u[j]}

Cl3Trees ==
    {<<>>}
    \cup {TreeOf(c0, c1, units, [k |-> "cl3", excl |-> e, bid |-> OldBid]) :
            c0 \in {NoValue, V77}, c1 \in {NoValue, Va}, units \in UnitSeqs,
            e \in {<<>>, <<ynl>>}}
    \cup {TreeOf(c0, NoValue, <<>>,
                 [k |-> "cl1unit",
                  unit |-> [value |-> Vb, neg |-> TRUE, bid |-> 0],
                  bid |-> OldBid]) : c0 \in {NoValue, V77}}

Start_Cl3InclAny ==
    /\ runs < MaxRuns
    /\ Call_Cl3Incl({xnl}, {DEFAULT_BID_MICROS, OldBid})

Start_Cl3ExclAny ==
    /\ runs < MaxRuns
    /\ Call_Cl3Excl({xnl, ynl}, {DEFAULT_BID_MICROS})

InitCl3 == InitWith(Cl3Trees)

NextCl3 ==
    \/ Start_Cl3InclAny
    \/ Resume_Cl3Incl
    \/ Start_Cl3ExclAny
    \/ Resume_Cl3Excl
    \/ RemoteMutate

SpecCl3 == InitCl3 /\ [][NextCl3]_vars

----------------------------------------------------------------------------
(* Properties of the creation batches *)

OthersOf(ops, i) ==
    {j \in DOMAIN ops :
        /\ ops[j].parent = ops[i].tmp
        /\ ops[j].axis # "ROOT"
        /\ ops[j].value = NoValue}

(* C1: in every creation batch of every tree builder, each subdivision     *)
(* created has exactly one OTHERS creation (an axis without a value) in the *)
(* same batch whose parent is the subdivision's placeholder.                *)
C1OthersInSameBatch ==
    pc = "wait" =>
        \A i \in DOMAIN inflight :
            inflight[i].kind = "SUBDIVISION" =>
                Cardinality(OthersOf(inflight, i)) = 1

PlacedIds == {p.id : p \in placed}

CreatesIn(c) == Cardinality({i \in DOMAIN c : c[i] = "create"})

(* C2: in every creation batch each parent is the placeholder of an        *)
(* operation of the same batch or a real id returned by a completed batch   *)
(* of the run, only the root has no parent, and a batch after the first is  *)
(* submitted only from the answered state of the batch before it.           *)
C2ParentReferences ==
    /\ [](pc = "wait" =>
            /\ \A i \in DOMAIN inflight :
                  \/ inflight[i].parent = 0 /\ inflight[i].axis = "ROOT"
                  \/ inflight[i].parent < 0 /\ inflight[i].parent \in
                        {inflight[j].tmp : j \in 1..(i - 1)}
                  \/ inflight[i].parent > 0 /\ inflight[i].parent \in PlacedIds
            /\ \A i \in DOMAIN inflight :
                  inflight[i].tmp \notin {p.tmp : p \in placed}
            /\ CreatesIn(calls) = batchNo)
    /\ [][(batchNo' > 1 /\ batchNo' # batchNo) =>
            /\ batchNo' = batchNo + 1
            /\ pc = "resp"
            /\ response.status = "ok"
            /\ Len(response.results) = Len(inflight)]_vars

C2Witness ==
    /\ fn = "uitbreiding"
    /\ pc = "wait"
    /\ batchNo = 3
    /\ inflight[1].parent \in PlacedIds

(* C10: a creation batch the remote system rejects with "already exists"   *)
(* never makes the code that submitted it report a failure.                 *)
C10ExistsIsSuccess ==
    ~(pc = "idle" /\ result = "failure" /\ response.status = "exists")

----------------------------------------------------------------------------
(* Properties of the custom-label-3 rebuilds *)

RealOf(t) == (CHOOSE p \in placed : p.tmp = t).id

NodeOf(id) == CHOOSE r \in Range(tree) : r.id = id

HasCl3Others(id) ==
    \E r \in Range(tree) :
        r.parent = id /\ r.axis = "INDEX3" /\ r.value = NoValue /\ ~r.neg

(* C3: in rebuild_tree_with_custom_label_3_exclusion, with or without a    *)
(* CL0 subdivision, with or without a CL1 subdivision and for every number  *)
(* of CL0 units, the parents of batch 2 are the nodes created for the       *)
(* converted CL0 units, in order, or else the deepest rebuilt subdivision:  *)
(* each exclusion leaf sits beside a positive CL3 OTHERS leaf.              *)
C3ResultIndexes ==
    (fn = "cl3_excl" /\ pc = "wait" /\ batchNo = 2) =>
        IF loc.units # <<>>
        THEN /\ Len(inflight) = Len(loc.units)
             /\ \A i \in DOMAIN inflight :
                   /\ inflight[i].parent = RealOf(loc.convTmps[i])
                   /\ NodeOf(inflight[i].parent).kind = "SUBDIVISION"
                   /\ NodeOf(inflight[i].parent).axis = "INDEX0"
                   /\ NodeOf(inflight[i].parent).value = loc.units[i].value
                   /\ HasCl3Others(inflight[i].parent)
        ELSE /\ Len(inflight) = 1
             /\ inflight[1].parent = RealOf(loc.deepestTmp)
             /\ NodeOf(inflight[1].parent).kind = "SUBDIVISION"
             /\ NodeOf(inflight[1].parent).axis =
                   (IF loc.hasC1 THEN "INDEX1"
                    ELSE IF loc.hasC0 THEN "INDEX0" ELSE "ROOT")
             /\ HasCl3Others(inflight[1].parent)

C3Witness ==
    /\ fn = "cl3_excl"
    /\ pc = "wait"
    /\ batchNo = 2
    /\ loc.hasC0
    /\ loc.hasC1
    /\ Len(loc.units) = 2
    /\ Len(inflight) = 2

RootId == (CHOOSE r \in Range(tree) : r.parent = 0).id

(* C4: rebuild_tree_with_custom_label_3_inclusion for shop S and bid B     *)
(* issues two creation batches and no more: the root subdivision with the   *)
(* negative CL3 OTHERS unit under the root's placeholder, then the positive *)
(* CL3 = S unit with bid B under the real id of the root.                   *)
C4InclusionBatches ==
    fn = "cl3_incl" =>
        /\ batchNo <= 2
        /\ result = "success" => batchNo = 2 /\ CreatesIn(calls) = 2
        /\ (pc = "wait" /\ batchNo = 1) =>
              inflight =
                << [tmp |-> inflight[1].tmp, parent |-> 0,
                    kind |-> "SUBDIVISION", axis |-> "ROOT",
                    value |-> NoValue, neg |-> FALSE, bid |-> 0],
                   [tmp |-> inflight[2].tmp, parent |-> inflight[1].tmp,
                    kind |-> "UNIT", axis |-> "INDEX3", value |-> NoValue,
                    neg |-> TRUE, bid |-> 0] >>
        /\ (pc = "wait" /\ batchNo = 2) =>
              inflight =
                << [tmp |-> inflight[1].tmp, parent |-> RootId,
                    kind |-> "UNIT", axis |-> "INDEX3", value |-> loc.shop,
                    neg |-> FALSE, bid |-> loc.bid] >>

C4Witness ==
    /\ fn = "cl3_incl"
    /\ result = "success"
    /\ loc.shop = xnl
    /\ loc.bid = OldBid
    /\ loc.old # <<>>

(* C5: after a successful rebuild_tree_with_custom_label_3_exclusion every *)
(* node of the old tree with a value on a custom-label axis other than CL3  *)
(* is in the new tree with the same value, polarity and bid.                *)
C5StructurePreserved ==
    (fn = "cl3_excl" /\ pc = "idle" /\ result = "success") =>
        \A n \in Range(loc.old) :
            (n.axis \in CustomAxes \ {"INDEX3"} /\ n.value # NoValue) =>
                \E m \in Range(tree) :
                    /\ m.axis = n.axis
                    /\ m.value = n.value
                    /\ m.neg = n.neg
                    /\ m.bid = n.bid

----------------------------------------------------------------------------
(* prepare_shop_exclusion_operation and execute_exclusion_batch             *)

(* parent_for_cl3: the parent of the last CL3 row that has one *)
ParentForCl3(t) ==
    LET m == SelectSeq(t, LAMBDA r : r.axis = "INDEX3" /\ r.parent # 0)
    IN  IF m = <<>> THEN 0 ELSE m[Len(m)].parent

(* existing_cl3_exclusions: lower-cased values of the negative CL3 rows *)
ExistingCl3Exclusions(t) ==
    {Lower(r.value) : r \in {r \in Range(t) :
        r.axis = "INDEX3" /\ r.value # NoValue /\ r.neg}}

(* prepare_shop_exclusion_operation without a cache: (operation, status) *)
PrepareOp(t, c, shop_name, queryOk) ==
    IF ~queryOk THEN [status |-> "error", op |-> <<>>]
    ELSE IF t = <<>> THEN [status |-> "error", op |-> <<>>]
    ELSE IF ParentForCl3(t) = 0 THEN [status |-> "error", op |-> <<>>]
    ELSE IF Lower(shop_name) \in ExistingCl3Exclusions(t)
    THEN [status |-> "skip", op |-> <<>>]
    ELSE [status |-> "ready",
          op |-> << UnitOp(NextId(c), ParentForCl3(t), "INDEX3", shop_name,
                           TRUE, 0) >>]

(* The operations a caller collects: one prepared operation per shop, the  *)
(* ones that are not ready left out                                         *)
RECURSIVE PreparedOps(_, _, _, _)
PreparedOps(t, c, shop_names, queryOks) ==
    IF shop_names = <<>> THEN <<>>
    ELSE LET p == PrepareOp(t, c, Head(shop_names), Head(queryOks))
         IN  p.op \o PreparedOps(t, IF p.op = <<>> THEN c ELSE NextId(c),
                                 Tail(shop_names), Tail(queryOks))

(* operations[i:i + batch_size] *)
Batch(operations, i, batch_size) ==
    SubSeq(operations, i + 1,
           IF i + batch_size < Len(operations) THEN i + batch_size
           ELSE Len(operations))

(* The end of one round of "for i in range(0, len(operations),             *)
(* batch_size)": the next batch is sent, or the counts are returned.        *)
ExecBatchNext(s) ==
    LET l == s.loc
        i == l.i + l.batch_size
    IN  IF i < Len(l.operations)
        THEN Send([s EXCEPT !.loc.i = i, !.loc.mode = "batch", !.loc.k = 0],
                  Batch(l.operations, i, l.batch_size))
        ELSE Return([s EXCEPT !.loc.mode = "batch", !.loc.k = 0])

ExecBatchStart(s0, operations, batch_size) ==
    LET b == Begin(s0, "exec_batch")
        s == [b EXCEPT !.loc.operations = operations,
                       !.loc.batch_size = batch_size,
                       !.loc.mode = "batch",
                       !.tempCounter = IF operations = <<>> THEN b.tempCounter
                                       ELSE operations[Len(operations)].tmp]
    IN  IF operations = <<>> THEN Return(s)
        ELSE Send(s, Batch(operations, 0, batch_size))

(* The answer to a batch, or to one operation of a batch that failed *)
ExecBatchResume(s) ==
    LET l == s.loc
        batch == Batch(l.operations, l.i, l.batch_size)
        fine == s.response.status \in {"ok", "exists"}
    IN  IF l.mode = "batch"
        THEN IF fine
             THEN ExecBatchNext([s EXCEPT !.loc.success_count =
                                             l.success_count + Len(batch)])
             ELSE Send([s EXCEPT !.loc.mode = "single", !.loc.k = 1],
                       << batch[1] >>)
        ELSE LET s1 == IF fine
                       THEN [s EXCEPT !.loc.success_count =
                                         l.success_count + 1]
                       ELSE [s EXCEPT !.loc.error_count = l.error_count + 1,
                                      !.loc.errors =
                                         Append(l.errors, batch[l.k].value)]
             IN  IF l.k < Len(batch)
                 THEN Send([s1 EXCEPT !.loc.k = l.k + 1], << batch[l.k + 1] >>)
                 ELSE ExecBatchNext(s1)

Call_ExecBatch(shopLists, sizes) ==
    /\ pc = "idle"
    /\ \E shop_names \in shopLists, batch_size \in sizes :
          \E queryOks \in [1..Len(shop_names) -> BOOLEAN] :
              Set(ExecBatchStart(Cur,
                      PreparedOps(tree, tempCounter, shop_names, queryOks),
                      batch_size))

Resume_ExecBatch ==
    /\ pc = "resp"
    /\ fn = "exec_batch"
    /\ Set(ExecBatchResume(Cur))

(* add_shop_exclusions_batch, as process_exclusion_sheet_v2 calls it *)

(* shop_names_lower = {name.lower(): name for name in shop_names}: a key   *)
(* stays where its first name put it and holds its last name                *)
RECURSIVE LowerDict(_)
LowerDict(shop_names) ==
    IF shop_names = <<>> THEN <<>>
    ELSE LET n == Len(shop_names)
             last == shop_names[n]
             front == LowerDict(SubSeq(shop_names, 1, n - 1))
         IN  IF \E i \in DOMAIN front : Lower(front[i]) = Lower(last)
             THEN [i \in DOMAIN front |->
                      IF Lower(front[i]) = Lower(last) THEN last
                      ELSE front[i]]
             ELSE Append(front, last)

(* Step 3: the shops whose lower-cased name is an exclusion already *)
AlreadyExcluded(t, shop_names) ==
    SelectSeq(LowerDict(shop_names),
              LAMBDA n : Lower(n) \in ExistingCl3Exclusions(t))

(* Step 3: one negative CL3 unit for each other shop, in the dict's order *)
AddBatchOperations(t, c, shop_names) ==
    LET new == SelectSeq(LowerDict(shop_names),
                         LAMBDA n : Lower(n) \notin ExistingCl3Exclusions(t))
    IN  [i \in 1..Len(new) |->
            UnitOp(NthId(c, i), ParentForCl3(t), "INDEX3", new[i], TRUE, 0)]

(* list(set(names)): the names without repetition, in the order in which   *)
(* the set is iterated                                                      *)
ListOfSet(names) ==
    {p \in [1..Cardinality(Range(names)) -> Range(names)] :
        \A i, j \in DOMAIN p : i # j => p[i] # p[j]}

AddBatchStart(s0, shop_names_for_targeting, unique_targeting_names, readOk) ==
    LET b == Read(Begin(s0, "add_batch"), readOk)
        shop_names == unique_targeting_names
        s == [b EXCEPT !.loc.requested = shop_names_for_targeting,
                       !.loc.shops = shop_names]
        operations == AddBatchOperations(s.tree, s.tempCounter, shop_names)
    IN  IF ~readOk \/ s.tree = <<>> \/ ParentForCl3(s.tree) = 0
        THEN Return([s EXCEPT !.loc.errors = shop_names])
        ELSE LET s1 == [s EXCEPT !.loc.already_excluded =
                                    AlreadyExcluded(s.tree, shop_names),
                                 !.loc.operations = operations,
                                 !.loc.mode = "batch"]
             IN  IF operations = <<>> THEN Return(s1)
                 ELSE Submit(s1, operations)

(* Step 4: the answer to the batch, or to one operation sent on its own    *)
(* after the batch failed                                                   *)
AddBatchResume(s) ==
    LET l == s.loc
        st == s.response.status
    IN  IF l.mode = "batch"
        THEN IF st = "ok"
             THEN Return([s EXCEPT !.loc.success = ValuesOf(l.operations)])
             ELSE Send([s EXCEPT !.loc.mode = "single", !.loc.k = 1],
                       << l.operations[1] >>)
        ELSE LET shop_name == l.operations[l.k].value
                 s1 == CASE st = "ok" ->
                              [s EXCEPT !.loc.success =
                                           Append(l.success, shop_name)]
                         [] st = "exists" ->
                              [s EXCEPT !.loc.already_excluded =
                                           Append(l.already_excluded,
                                                  shop_name)]
                         [] OTHER ->
                              [s EXCEPT !.loc.errors =
                                           Append(l.errors, shop_name)]
             IN  IF l.k < Len(l.operations)
                 THEN Send([s1 EXCEPT !.loc.k = l.k + 1],
                           << l.operations[l.k + 1] >>)
                 ELSE Return(s1)

Call_AddBatch(shopLists) ==
    /\ pc = "idle"
    /\ \E shop_names_for_targeting \in shopLists, readOk \in BOOLEAN :
          \E unique_targeting_names \in ListOfSet(shop_names_for_targeting) :
              Set(AddBatchStart(Cur, shop_names_for_targeting,
                                unique_targeting_names, readOk))

Resume_AddBatch ==
    /\ pc = "resp"
    /\ fn = "add_batch"
    /\ Set(AddBatchResume(Cur))

Start_AddBatch ==
    /\ runs < MaxRuns
    /\ Call_AddBatch(ShopLists)

BatchSizes == {1, 2}

Start_ExecBatch ==
    /\ runs < MaxRuns
    /\ Call_ExecBatch(SeqsUpTo({xnl, XNL, ynl}, MaxShops + 1), BatchSizes)

BatchTrees == ShopExclTrees \ {<<>>}

InitBatch == InitWith(BatchTrees)

NextBatch ==
    \/ Start_ExecBatch
    \/ Resume_ExecBatch
    \/ Start_AddBatch
    \/ Resume_AddBatch
    \/ RemoteMutate

SpecBatch == InitBatch /\ [][NextBatch]_vars

----------------------------------------------------------------------------
(* process_exclusion_sheet *)

MaxSheetRows == 3

(* A row has no status yet *)
Unprocessed(r) == r.status = ""

(* "if not shop_name or not cat_uitsluiten or not custom_label_1 or not     *)
(* diepste_cat_id" is false                                                 *)
HasRequiredFields(r) ==
    /\ r.shop_name # NoValue
    /\ r.cat_uitsluiten # NoValue
    /\ r.custom_label_1 # NoValue
    /\ r.diepste_cat_id # NoValue

GroupKey(r) == << r.cat_uitsluiten, r.custom_label_1 >>

(* The rows that Step 1 puts into a group *)
GroupedRows(rows) ==
    {i \in DOMAIN rows : Unprocessed(rows[i]) /\ HasRequiredFields(rows[i])}

Max(S) == CHOOSE x \in S : \A y \in S : y <= x

(* campaign_groups[group_key] as the row that opens the group sees it at    *)
(* the end of Step 1: the rows and shops of the key, the last diepste_cat_id *)
GroupAt(rows, i) ==
    LET members == {j \in GroupedRows(rows) :
                       GroupKey(rows[j]) = GroupKey(rows[i])}
    IN  [group_key |-> GroupKey(rows[i]),
         rows |-> members,
         shops |-> {rows[j].shop_name : j \in members},
         diepste_cat_id |-> rows[Max(members)].diepste_cat_id]

(* campaign_groups.items(): the groups in the order in which their first    *)
(* row stands in the sheet                                                  *)
RECURSIVE GroupsFrom(_, _)
GroupsFrom(rows, i) ==
    IF i > Len(rows) THEN <<>>
    ELSE IF /\ i \in GroupedRows(rows)
            /\ \A j \in GroupedRows(rows) :
                  j < i => GroupKey(rows[j]) # GroupKey(rows[i])
         THEN << GroupAt(rows, i) >> \o GroupsFrom(rows, i + 1)
         ELSE GroupsFrom(rows, i + 1)

(* sheet.cell(...).value = status and error for the rows idxs *)
MarkRows(rows, idxs, status, error) ==
    [i \in DOMAIN rows |->
        IF i \in idxs
        THEN [rows[i] EXCEPT !.status = status, !.error = error]
        ELSE rows[i]]

(* Step 1: rows without a required field are marked, the others grouped;    *)
(* without a group the processor returns.                                   *)
ExclusionSheetStart(s0) ==
    LET rows == s0.sheet.rows
        missing == {i \in DOMAIN rows :
                       Unprocessed(rows[i]) /\ ~HasRequiredFields(rows[i])}
        campaign_groups == GroupsFrom(rows, 1)
    IN  [s0 EXCEPT
            !.sheet.rows = MarkRows(rows, missing, "FALSE",
                                    "Missing required fields"),
            !.sheet.groups = campaign_groups,
            !.sheet.phase = IF campaign_groups = <<>> THEN "done" ELSE "loop"]

(* sorted(group_data['shops']) *)
Sorted(S) ==
    CHOOSE p \in [1..Cardinality(S) -> S] :
        /\ \A i, j \in DOMAIN p : i # j => p[i] # p[j]
        /\ \A i, j \in DOMAIN p : i < j => StrLeq(p[i], p[j])

ExclusionGroupEnd_StopOnError(s) ==
    IF s.pc # "idle" THEN s
    ELSE LET g == s.sheet.groups[s.sheet.at + 1]
             ok == s.result = "success"
         IN  [s EXCEPT
                 !.sheet.rows = MarkRows(s.sheet.rows, g.rows,
                                   IF ok THEN "TRUE" ELSE "FALSE",
                                   IF ok THEN "" ELSE s.err),
                 !.sheet.at = s.sheet.at + 1,
                 !.sheet.phase =
                     IF ~ok \/ s.sheet.at + 1 = Len(s.sheet.groups)
                     THEN "done" ELSE "loop"]

(* The end of one round of the loop over the groups, once the builder has   *)
(* returned or raised: the rows of the group are marked, and after the last *)
(* group the workbook is saved and the processor returns.                   *)
ExclusionGroupEnd(s) ==
    IF s.pc # "idle" THEN s
    ELSE LET g == s.sheet.groups[s.sheet.at + 1]
             ok == s.result = "success"
         IN  [s EXCEPT
                 !.sheet.rows = MarkRows(s.sheet.rows, g.rows,
                                   IF ok THEN "TRUE" ELSE "FALSE",
                                   IF ok THEN "" ELSE s.err),
                 !.sheet.at = s.sheet.at + 1,
                 !.sheet.phase =
                     IF s.sheet.at + 1 = Len(s.sheet.groups)
                     THEN "done" ELSE "loop"]

(* One round of the loop: the campaign is looked up; when it is found, t is *)
(* the tree of its ad group and the builder is called on it.                *)
ExclusionGroupStart(s0, found, t, ad_group_name, o, sorted_shops) ==
    LET g == s0.sheet.groups[s0.sheet.at + 1]
    IN  IF ~found
        THEN ExclusionGroupEnd(
                 Raise([s0 EXCEPT !.fn = "lookup"], "Campaign not found"))
        ELSE ExclusionGroupEnd(
                 ShopExclStart([s0 EXCEPT !.tree = t,
                                          !.nextReal = Len(t) + 1],
                               Sorted(g.shops), g.diepste_cat_id,
                               ad_group_name, o.readOk, o.rmReadOk, o.rmOk,
                               sorted_shops))

Start_ExclusionSheet ==
    /\ pc = "idle"
    /\ sheet.name = "uitsluiten"
    /\ sheet.phase = "new"
    /\ Set(ExclusionSheetStart(Cur))

SheetTrees ==
    {<<>>,
     TreeOf(V77, Va, <<>>, [k |-> "cl3", excl |-> <<xnl>>, bid |-> OldBid])}

Next_ExclusionGroup ==
    /\ pc = "idle"
    /\ sheet.name = "uitsluiten"
    /\ sheet.phase = "loop"
    /\ \E found \in BOOLEAN, t \in SheetTrees,
          ad_group_name \in {NoValue, AG_a}, o \in Outcomes :
          LET g == sheet.groups[sheet.at + 1]
          IN  \E sorted_shops \in SortedByLower(
                     MergeExclusions(ExistingShopExclusions(t),
                                     Sorted(g.shops))) :
                 Set(ExclusionGroupStart(Cur, found, t, ad_group_name, o,
                                         sorted_shops))

Resume_ExclusionGroup ==
    /\ pc = "resp"
    /\ fn = "shop_excl"
    /\ sheet.name = "uitsluiten"
    /\ sheet.phase = "loop"
    /\ Set(ExclusionGroupEnd(ShopExclResume(Cur)))

(* The rows of the sheet 'uitsluiten': shop, category, CL0, CL1 and status  *)
ExclusionRow(shop_name, cat, status) ==
    [shop_name |-> shop_name, cat_uitsluiten |-> cat, diepste_cat_id |-> cat,
     custom_label_1 |-> Va, status |-> status, error |-> ""]

ExclusionRows ==
    {ExclusionRow(xnl, V77, ""), ExclusionRow(ynl, V88, ""),
     ExclusionRow(ynl, V77, "TRUE"), ExclusionRow(NoValue, V88, "")}

(* process_inclusion_sheet_v2 *)

(* A new worksheet with the rows r *)
NewSheet(name, r) == [NoSheet EXCEPT !.name = name, !.rows = r, !.phase = "new"]

(* "if not shop_name or not maincat or not maincat_id or not                *)
(* custom_label_1" is false                                                 *)
HasInclusionFields(r) ==
    /\ r.shop_name # NoValue
    /\ r.maincat # NoValue
    /\ r.maincat_id # NoValue
    /\ r.custom_label_1 # NoValue

(* campaign_name = f"PLA/{maincat} store_{custom_label_1}" *)
CampaignKey(r) == << r.maincat, r.custom_label_1 >>

CampaignRows(rows) ==
    {i \in DOMAIN rows : Unprocessed(rows[i]) /\ HasInclusionFields(rows[i])}

(* campaigns[campaign_name]['ad_groups'][shop_name] *)
AdGroupAt(rows, members, i) ==
    LET mine == {j \in members : rows[j].shop_name = rows[i].shop_name}
    IN  [shop_name |-> rows[i].shop_name,
         maincat_ids |-> {rows[j].maincat_id : j \in mine},
         rows |-> mine]

(* ad_groups.items(): the shops of a campaign in the order of their first   *)
(* row                                                                      *)
RECURSIVE AdGroupsFrom(_, _, _)
AdGroupsFrom(rows, members, i) ==
    IF i > Len(rows) THEN <<>>
    ELSE IF /\ i \in members
            /\ \A j \in members :
                  j < i => rows[j].shop_name # rows[i].shop_name
         THEN << AdGroupAt(rows, members, i) >>
              \o AdGroupsFrom(rows, members, i + 1)
         ELSE AdGroupsFrom(rows, members, i + 1)

CampaignAt(rows, i) ==
    LET members == {j \in CampaignRows(rows) :
                       CampaignKey(rows[j]) = CampaignKey(rows[i])}
    IN  [campaign_name |-> CampaignKey(rows[i]),
         cl1 |-> rows[Max(members)].custom_label_1,
         rows |-> members,
         ad_groups |-> AdGroupsFrom(rows, members, 1)]

(* campaigns.items(): the campaigns in the order of their first row *)
RECURSIVE CampaignsFrom(_, _)
CampaignsFrom(rows, i) ==
    IF i > Len(rows) THEN <<>>
    ELSE IF /\ i \in CampaignRows(rows)
            /\ \A j \in CampaignRows(rows) :
                  j < i => CampaignKey(rows[j]) # CampaignKey(rows[i])
         THEN << CampaignAt(rows, i) >> \o CampaignsFrom(rows, i + 1)
         ELSE CampaignsFrom(rows, i + 1)

(* Step 1: rows without a required field are marked, the others grouped by  *)
(* campaign and shop; without a campaign only the final save is left.       *)
InclusionSheetStart(s0) ==
    LET rows == s0.sheet.rows
        missing == {i \in DOMAIN rows :
                       Unprocessed(rows[i]) /\ ~HasInclusionFields(rows[i])}
        campaigns == CampaignsFrom(rows, 1)
    IN  [s0 EXCEPT
            !.sheet.rows = MarkRows(rows, missing, "FALSE",
                                    "Missing required fields"),
            !.sheet.groups = campaigns,
            !.sheet.phase = IF campaigns = <<>> THEN "done" ELSE "loop"]

(* The end of one round of the loop over the campaigns *)
CampaignEnd(sh) ==
    [sh EXCEPT !.at = sh.at + 1,
               !.ag = 0,
               !.ad_groups_processed = {},
               !.ad_group_errors = {},
               !.phase = IF sh.at + 1 = Len(sh.groups) THEN "done"
                         ELSE "loop"]

(* The campaign is created or found, or the round ends in "CAMPAIGN FAILED" *)
InclusionCampaignStart(s0, campaignOk) ==
    LET sh == s0.sheet
        c == sh.groups[sh.at + 1]
    IN  IF campaignOk
        THEN [s0 EXCEPT !.sheet.phase = "ad_groups"]
        ELSE [s0 EXCEPT !.sheet =
                 CampaignEnd([sh EXCEPT !.rows =
                     MarkRows(sh.rows, c.rows, "FALSE", "Campaign failed")])]

(* "Mark rows as successful/failed": the rows of each shop of the campaign *)
RECURSIVE MarkAdGroups(_, _, _, _)
MarkAdGroups(rows, ad_groups, processed, errors) ==
    IF ad_groups = <<>> THEN rows
    ELSE LET g == Head(ad_groups)
             ok == g.shop_name \in processed
             e == IF \E x \in errors : x.shop_name = g.shop_name
                  THEN (CHOOSE x \in errors : x.shop_name = g.shop_name).msg
                  ELSE "Failed to process ad group"
         IN  MarkAdGroups(MarkRows(rows, g.rows,
                                   IF ok THEN "TRUE" ELSE "FALSE",
                                   IF ok THEN "" ELSE e),
                          Tail(ad_groups), processed, errors)

(* s.text.split('|')[0] *)
RECURSIVE BeforeBar(_)
BeforeBar(text) ==
    IF text = <<>> \/ Head(text) = "|" THEN <<>>
    ELSE << Head(text) >> \o BeforeBar(Tail(text))

(* The end of one round of the loop over the ad groups, once the builder    *)
(* has returned or raised and the product ad was tried; after the last ad   *)
(* group the rows of the campaign are marked.                               *)
InclusionAdGroupEnd(s, adOk) ==
    IF s.pc # "idle" THEN s
    ELSE LET sh == s.sheet
             c == sh.groups[sh.at + 1]
             g == c.ad_groups[sh.ag + 1]
             ok == s.result = "success" /\ adOk
             e == IF s.result = "success" THEN "ad" ELSE s.err
             sh1 == [sh EXCEPT
                        !.ag = sh.ag + 1,
                        !.ad_groups_processed =
                            IF ok THEN sh.ad_groups_processed
                                       \cup {g.shop_name}
                            ELSE sh.ad_groups_processed,
                        !.ad_group_errors =
                            IF ok THEN sh.ad_group_errors
                            ELSE {x \in sh.ad_group_errors :
                                     x.shop_name # g.shop_name}
                                 \cup {[shop_name |-> g.shop_name,
                                        msg |-> e]}]
         IN  IF sh1.ag < Len(c.ad_groups)
             THEN [s EXCEPT !.sheet = sh1]
             ELSE [s EXCEPT !.sheet =
                     CampaignEnd([sh1 EXCEPT !.rows =
                         MarkAdGroups(sh1.rows, c.ad_groups,
                                      sh1.ad_groups_processed,
                                      sh1.ad_group_errors)])]

(* One round of the loop over the ad groups: the ad group is created or     *)
(* found, t is its tree, and the builder is called on it.                   *)
InclusionAdGroupStart(s0, adGroupOk, t, checkOk, adOk) ==
    LET c == s0.sheet.groups[s0.sheet.at + 1]
        g == c.ad_groups[s0.sheet.ag + 1]
    IN  IF ~adGroupOk
        THEN InclusionAdGroupEnd(
                 Raise([s0 EXCEPT !.fn = "ad_group"],
                       "Failed to create/find ad group"), adOk)
        ELSE InclusionAdGroupEnd(
                 InclV2Start([s0 EXCEPT !.tree = t, !.nextReal = Len(t) + 1],
                             BeforeBar(g.shop_name), Sorted(g.maincat_ids),
                             checkOk), adOk)

Start_InclusionSheet ==
    /\ pc = "idle"
    /\ sheet.name = "toevoegen"
    /\ sheet.phase = "new"
    /\ Set(InclusionSheetStart(Cur))

Next_InclusionCampaign ==
    /\ pc = "idle"
    /\ sheet.name = "toevoegen"
    /\ sheet.phase = "loop"
    /\ \E campaignOk \in BOOLEAN : Set(InclusionCampaignStart(Cur, campaignOk))

Next_InclusionAdGroup ==
    /\ pc = "idle"
    /\ sheet.name = "toevoegen"
    /\ sheet.phase = "ad_groups"
    /\ \E adGroupOk, checkOk, adOk \in BOOLEAN, t \in SheetTrees :
          Set(InclusionAdGroupStart(Cur, adGroupOk, t, checkOk, adOk))

Resume_InclusionAdGroup ==
    /\ pc = "resp"
    /\ fn = "incl_v2"
    /\ sheet.name = "toevoegen"
    /\ sheet.phase = "ad_groups"
    /\ \E adOk \in BOOLEAN : Set(InclusionAdGroupEnd(InclV2Resume(Cur), adOk))

xbar == <<"x", ".", "n", "l", "|", "N", "L">>

(* The rows of the inclusion sheet: shop, maincat, maincat_id, CL1, status *)
InclusionRow(shop_name, maincat, maincat_id, status) ==
    [shop_name |-> shop_name, maincat |-> maincat, maincat_id |-> maincat_id,
     custom_label_1 |-> Va, status |-> status, error |-> ""]

InclusionRows ==
    {InclusionRow(xnl, V77, V77, ""), InclusionRow(xnl, V77, V88, ""),
     InclusionRow(ynl, V77, V77, ""), InclusionRow(xbar, V88, V88, ""),
     InclusionRow(ynl, V88, NoValue, "")}

InitSheet ==
    /\ tree = <<>>
    /\ nextReal = 1
    /\ tempCounter = -1
    /\ pc = "idle"
    /\ fn = "none"
    /\ batchNo = 0
    /\ inflight = <<>>
    /\ response = NoResponse
    /\ placed = {}
    /\ calls = <<>>
    /\ result = "none"
    /\ err = ""
    /\ warn = {}
    /\ runs = 0
    /\ loc = EmptyLoc
    /\ reads = <<>>
    /\ sheet \in {NewSheet("uitsluiten", r) :
                     r \in SeqsUpTo(ExclusionRows, MaxSheetRows)}
                 \cup {NewSheet("toevoegen", r) :
                     r \in SeqsUpTo(InclusionRows, MaxSheetRows)}
    /\ threads = NoThreads

NextSheet ==
    \/ Start_ExclusionSheet
    \/ Next_ExclusionGroup
    \/ Resume_ExclusionGroup
    \/ Start_InclusionSheet
    \/ Next_InclusionCampaign
    \/ Next_InclusionAdGroup
    \/ Resume_InclusionAdGroup
    \/ RemoteMutate

SpecSheet == InitSheet /\ [][NextSheet]_vars

----------------------------------------------------------------------------
(* next_id() called by concurrent workers *)

NumWorkers == 2
MaxCalls == 2

Workers == 1..NumWorkers

(* Calls of next_id() that worker w has begun *)
CallsBegun(w) ==
    Cardinality({i \in DOMAIN threads.got : threads.got[i].worker = w})
    + (IF threads.at[w] = "idle" THEN 0 ELSE 1)

(* "_temp_id_counter -= 1", first half: the global is read *)
NextId_Load ==
    \E w \in Workers :
        /\ threads.at[w] = "idle"
        /\ CallsBegun(w) < MaxCalls
        /\ threads' = [threads EXCEPT !.at[w] = "loaded",
                                      !.reg[w] = tempCounter]
        /\ UNCHANGED <<tree, nextReal, tempCounter, pc, fn, batchNo, inflight,
                       response, placed, calls, result, err, warn, runs, loc,
                       reads, sheet>>

(* "_temp_id_counter -= 1", second half: the value read, less one, is       *)
(* written to the global                                                    *)
NextId_Store ==
    \E w \in Workers :
        /\ threads.at[w] = "loaded"
        /\ tempCounter' = threads.reg[w] - 1
        /\ threads' = [threads EXCEPT !.at[w] = "stored"]
        /\ UNCHANGED <<tree, nextReal, pc, fn, batchNo, inflight, response,
                       placed, calls, result, err, warn, runs, loc, reads, sheet>>

(* "return _temp_id_counter": the global is read again *)
NextId_Return ==
    \E w \in Workers :
        /\ threads.at[w] = "stored"
        /\ threads' = [threads EXCEPT
                          !.at[w] = "idle",
                          !.got = Append(threads.got,
                                         [worker |-> w, value |-> tempCounter])]
        /\ UNCHANGED <<tree, nextReal, tempCounter, pc, fn, batchNo, inflight,
                       response, placed, calls, result, err, warn, runs, loc,
                       reads, sheet>>

InitNextId ==
    /\ tree = <<>>
    /\ nextReal = 1
    /\ tempCounter = -1
    /\ pc = "idle"
    /\ fn = "none"
    /\ batchNo = 0
    /\ inflight = <<>>
    /\ response = NoResponse
    /\ placed = {}
    /\ calls = <<>>
    /\ result = "none"
    /\ err = ""
    /\ warn = {}
    /\ runs = 0
    /\ loc = EmptyLoc
    /\ reads = <<>>
    /\ sheet = NoSheet
    /\ threads = [at |-> [w \in Workers |-> "idle"],
                  reg |-> [w \in Workers |-> 0],
                  got |-> <<>>]

NextNextId ==
    \/ NextId_Load
    \/ NextId_Store
    \/ NextId_Return

SpecNextId == InitNextId /\ [][NextNextId]_vars

----------------------------------------------------------------------------
(* Properties of failed batches *)

(* C11: when a creation batch is answered with an error other than         *)
(* "already exists", the code that submitted it issues no further call for  *)
(* that plan or operation list - no later batch, no removal - and ends by   *)
(* reporting the failure to its caller.                                     *)
C11AbortOnFailure ==
    [][(pc = "resp" /\ response.status = "error") =>
            /\ calls' = calls
            /\ batchNo' = batchNo
            /\ pc' = "idle"
            /\ result' = "failure"]_vars

----------------------------------------------------------------------------
(* Properties of the tree reads and of the removal *)

RebuildFunctions == {"shop_excl", "script", "cl3_incl", "cl3_excl"}

(* C12: once a rebuild function has submitted a creation batch for an ad   *)
(* group whose tree was not empty when it was called, the first call it     *)
(* issued was the removal of that tree's root.                              *)
C12RemovalFirst ==
    (fn \in RebuildFunctions /\ batchNo >= 1 /\ loc.old # <<>>) =>
        calls[1] = "remove"

FailedRead == \E i \in DOMAIN reads : reads[i] = "failed"

(* C13: a run in which a tree read raised has issued no removal and no     *)
(* creation, and ends by raising to its caller.                             *)
C13ReadErrorIsFatal ==
    FailedRead =>
        /\ calls = <<>>
        /\ batchNo = 0
        /\ tree = loc.old
        /\ pc = "idle"
        /\ result = "failure"

----------------------------------------------------------------------------
(* safe_remove_entire_listing_tree called on its own *)

(* What the search for the listing groups of an ad group may answer: the   *)
(* rows of the tree, or rows none of which is parentless - the answer the   *)
(* helper tests for with "if not root".                                     *)
SearchAnswers(t) == {t, SelectSeq(t, LAMBDA r : r.parent # 0)}

SafeRemoveCall(s0, rows, readOk, rmOk) ==
    LET b == Read(Begin(s0, "safe_remove"), readOk)
        s == SafeRemoveRows([b EXCEPT !.loc.rows = rows], rows, rmOk)
    IN  IF s.result = "failure" THEN s ELSE Return(s)

Call_SafeRemove ==
    /\ pc = "idle"
    /\ \E answer \in SearchAnswers(tree), readOk, rmOk \in BOOLEAN :
          Set(SafeRemoveCall(Cur, IF readOk THEN answer ELSE <<>>, readOk,
                             rmOk))

Start_SafeRemove ==
    /\ runs < MaxRuns
    /\ Call_SafeRemove

InitRemove == InitWith(Cl3Trees)

NextRemove ==
    \/ Start_SafeRemove
    \/ Start_Cl3InclAny
    \/ Resume_Cl3Incl
    \/ RemoteMutate

SpecRemove == InitRemove /\ [][NextRemove]_vars

Parentless(rows) == {i \in DOMAIN rows : rows[i].parent = 0}

(* C14: when the read of safe_remove_entire_listing_tree returned rows and *)
(* none of them is parentless, the call ends by raising to its caller.      *)
C14RootlessIsReported ==
    (fn = "safe_remove" /\ loc.rows # <<>> /\ Parentless(loc.rows) = {}) =>
        result = "failure"

----------------------------------------------------------------------------
(* Properties of the bid and of the item ids kept by the shop-exclusion    *)
(* rebuild                                                                  *)

(* The positive OTHERS leaves of the old tree: the CL3 OTHERS unit, or the *)
(* item-id OTHERS unit under a CL3 OTHERS subdivision                       *)
OldOthersLeaves ==
    {i \in DOMAIN loc.old :
        /\ loc.old[i].kind = "UNIT"
        /\ ~loc.old[i].neg
        /\ loc.old[i].value = NoValue
        /\ loc.old[i].axis \in {"INDEX3", "ITEM"}}

PositiveUnits(ops) ==
    {j \in DOMAIN ops : ops[j].kind = "UNIT" /\ ~ops[j].neg}

(* C15: the positive OTHERS leaf that rebuild_tree_with_shop_exclusions    *)
(* creates in its second batch carries the bid of the old tree's positive   *)
(* OTHERS leaf (CL3 OTHERS, or item-id OTHERS), and the default bid only    *)
(* when the old tree has no such leaf.                                      *)
C15BidPreserved ==
    (ShopExclRan /\ pc = "wait" /\ batchNo = 2) =>
        \A j \in PositiveUnits(inflight) :
            IF OldOthersLeaves = {}
            THEN inflight[j].bid = DEFAULT_BID_MICROS
            ELSE \E i \in OldOthersLeaves : inflight[j].bid = loc.old[i].bid

OldItemIds ==
    {loc.old[i].value : i \in {i \in DOMAIN loc.old :
        /\ loc.old[i].axis = "ITEM"
        /\ loc.old[i].neg
        /\ loc.old[i].value # NoValue}}

(* The node is a CL3 OTHERS subdivision with a positive item-id OTHERS unit *)
(* among its children                                                       *)
Cl3OthersWithItemOthers(t, p) ==
    /\ \E i \in DOMAIN t :
          /\ t[i].id = p
          /\ t[i].kind = "SUBDIVISION"
          /\ t[i].axis = "INDEX3"
          /\ t[i].value = NoValue
    /\ \E i \in DOMAIN t :
          /\ t[i].parent = p
          /\ t[i].kind = "UNIT"
          /\ t[i].axis = "ITEM"
          /\ t[i].value = NoValue
          /\ ~t[i].neg

(* C16: after a successful rebuild_tree_with_shop_exclusions every item id *)
(* that was a negative item-id node of the old tree is a negative item-id   *)
(* unit of the new tree, under a CL3 OTHERS subdivision that also has a     *)
(* positive item-id OTHERS leaf.                                            *)
C16ItemIdsPreserved ==
    (ShopExclRan /\ result = "success") =>
        \A v \in OldItemIds :
            \E i \in DOMAIN tree :
                /\ tree[i].kind = "UNIT"
                /\ tree[i].axis = "ITEM"
                /\ tree[i].value = v
                /\ tree[i].neg
                /\ Cl3OthersWithItemOthers(tree, tree[i].parent)

C16Witness ==
    /\ ShopExclRan
    /\ result = "success"
    /\ OldItemIds # {}
    /\ batchNo = 4
    /\ Len(calls) = 5

----------------------------------------------------------------------------
(* Properties of the order of the operations *)

(* C17: the operations a function submits, and their order, follow from    *)
(* its inputs and the tree it found: whatever order the iteration of a set  *)
(* takes, the exclusion batch of add_shop_exclusions_batch is the one that  *)
(* was submitted.                                                           *)
C17OrderIsDetermined ==
    (fn = "add_batch" /\ pc = "wait" /\ loc.mode = "batch") =>
        \A p \in ListOfSet(loc.requested) :
            ValuesOf(AddBatchOperations(loc.old, 0, p)) = ValuesOf(inflight)

----------------------------------------------------------------------------
(* Properties of the children of one parent *)

(* The builders called with any list, lists that name a shop or a category *)
(* twice included                                                           *)
Start_ScriptAnyList ==
    /\ runs < MaxRuns
    /\ Call_Script({V77}, {Va}, SeqsUpTo({xnl, ynl}, MaxShops))

Start_InclV2AnyList ==
    /\ runs < MaxRuns
    /\ Call_InclV2({xnl}, SeqsUpTo({V77, V88}, MaxUnits) \ {<<>>})

InitAnyList == InitWith(BuilderTrees)

NextAnyList ==
    \/ Start_ScriptAnyList
    \/ Resume_Script
    \/ Start_InclV2AnyList
    \/ Resume_InclV2
    \/ RemoteMutate

SpecAnyList == InitAnyList /\ [][NextAnyList]_vars

SameChild(n, m) ==
    n.parent = m.parent /\ n.axis = m.axis /\ n.value = m.value

----------------------------------------------------------------------------
(* Properties of the sheet processors *)

(* C19: a sheet processor ends only after the last of its groups, whatever  *)
(* failed on the way: when it has returned, every group was dealt with and  *)
(* every row of the sheet has a status.                                     *)
C19FailureDoesNotStop ==
    sheet.phase = "done" =>
        /\ sheet.at = Len(sheet.groups)
        /\ \A i \in DOMAIN sheet.rows : sheet.rows[i].status # ""

C19Witness ==
    /\ sheet.phase = "done"
    /\ Len(sheet.groups) = 2
    /\ \E i \in sheet.groups[1].rows :
          sheet.rows[i].status = "FALSE" /\ sheet.rows[i].error = "read"
    /\ \E i \in sheet.groups[2].rows : sheet.rows[i].status = "TRUE"

----------------------------------------------------------------------------
(* Properties of next_id() *)

(* C20: every value next_id() has returned is negative and differs from     *)
(* every value it returned before, whichever workers called it.             *)
C20IdsAreFresh ==
    \A i \in DOMAIN threads.got :
        /\ threads.got[i].value < 0
        /\ \A j \in 1..(i - 1) : threads.got[j].value # threads.got[i].value

----------------------------------------------------------------------------
(* reverse_exclusion_batch and reverse_exclusion (campaign_processor.py)   *)

(* The rows both functions look for: on INDEX3, with a value, negative *)
IsCl3Exclusion(r) == r.axis = "INDEX3" /\ r.value # NoValue /\ r.neg

(* The value the dict holds under a key *)
DictGet(d, key) == d[CHOOSE i \in DOMAIN d : Lower(d[i]) = key]

(* Step 2 of the batch: every negative CL3 row whose lower-cased value is  *)
(* a key of shop_names_lower, with the name the dict holds under that key   *)
CriteriaToRemove(t, shop_names) ==
    LET d == LowerDict(shop_names)
        hits == SelectSeq(t, LAMBDA r :
                    /\ IsCl3Exclusion(r)
                    /\ \E i \in DOMAIN d : Lower(d[i]) = Lower(r.value))
    IN  [i \in DOMAIN hits |->
            [id |-> hits[i].id,
             shop_name |-> DictGet(d, Lower(hits[i].value))]]

(* The dict's names whose key was not found in the tree *)
NotFound(t, shop_names) ==
    LET found_shops == {Lower(r.value) : r \in
                           {r \in Range(t) : IsCl3Exclusion(r)}}
    IN  SelectSeq(LowerDict(shop_names),
                  LAMBDA n : Lower(n) \notin found_shops)

(* One mutate call with one remove operation per row *)
RECURSIVE RemoveAll(_, _)
RemoveAll(t, ids) ==
    IF ids = <<>> THEN t
    ELSE RemoveAll(RemoveCascade(t, ids[1]), Tail(ids))

ShopNamesOf(criteria) == [i \in DOMAIN criteria |-> criteria[i].shop_name]

(* Step 3 when the removal call succeeds *)
ReverseBatchRemoval(s, criteria) ==
    [s EXCEPT !.calls = Append(s.calls, "remove"),
              !.tree = RemoveAll(s.tree,
                           [i \in DOMAIN criteria |-> criteria[i].id]),
              !.loc.success = ShopNamesOf(criteria)]

(* reverse_exclusion_batch: one read, one removal call, three lists *)
ReverseExclusionBatch(s0, shop_names, readOk, rmOk) ==
    LET b == Read(Begin(s0, "reverse_batch"), readOk)
        s == [b EXCEPT !.loc.requested = shop_names]
        criteria_to_remove == CriteriaToRemove(s.tree, shop_names)
        s1 == [s EXCEPT !.loc.not_found = NotFound(s.tree, shop_names),
                        !.loc.rows = criteria_to_remove]
    IN  IF ~readOk THEN Return([s EXCEPT !.loc.errors = shop_names])
        ELSE IF s.tree = <<>>
        THEN Return([s EXCEPT !.loc.not_found = shop_names])
        ELSE IF criteria_to_remove = <<>> THEN Return(s1)
        ELSE IF rmOk THEN Return(ReverseBatchRemoval(s1, criteria_to_remove))
        ELSE Return([s1 EXCEPT !.calls = Append(s.calls, "remove"),
                               !.loc.errors =
                                   ShopNamesOf(criteria_to_remove)])

(* reverse_exclusion: the first matching row only ("break"); False when    *)
(* the read fails, when there are no rows and when the removal fails        *)
ReverseExclusion(s0, shop_name, readOk, rmOk) ==
    LET b == Read(Begin(s0, "reverse"), readOk)
        s == [b EXCEPT !.loc.requested = << shop_name >>,
                       !.loc.shop = shop_name]
        hits == SelectSeq(s.tree, LAMBDA r :
                    IsCl3Exclusion(r) /\ Lower(r.value) = Lower(shop_name))
    IN  IF ~readOk THEN Raise(s, "read")
        ELSE IF s.tree = <<>> THEN Raise(s, "no tree")
        ELSE IF hits = <<>>
        THEN Return([s EXCEPT !.loc.not_found = << shop_name >>])
        ELSE IF rmOk
        THEN Return([s EXCEPT !.calls = Append(s.calls, "remove"),
                              !.tree = RemoveCascade(s.tree, hits[1].id),
                              !.loc.success = << shop_name >>])
        ELSE Raise([s EXCEPT !.calls = Append(s.calls, "remove")], "remove")

(* A tree where the shop is a positive CL3 leaf, as the inclusion builder  *)
(* leaves it                                                                *)
InclusionTree ==
    << RootNode, Node(2, 1, "UNIT", "INDEX3", xnl, FALSE, OldBid),
       Node(3, 1, "UNIT", "INDEX3", NoValue, TRUE, 0) >>

ReverseTrees == ShopExclTrees \cup {InclusionTree}

Start_ReverseBatch ==
    /\ pc = "idle"
    /\ runs < MaxRuns
    /\ \E shop_names \in ShopLists, readOk \in BOOLEAN, rmOk \in BOOLEAN :
          Set(ReverseExclusionBatch(Cur, shop_names, readOk, rmOk))

Start_Reverse ==
    /\ pc = "idle"
    /\ runs < MaxRuns
    /\ \E shop_name \in {xnl, XNL, ynl}, readOk \in BOOLEAN,
          rmOk \in BOOLEAN :
          Set(ReverseExclusion(Cur, shop_name, readOk, rmOk))

InitReverse == InitWith(ReverseTrees)

NextReverse ==
    \/ Start_ReverseBatch
    \/ Start_Reverse

SpecReverse == InitReverse /\ [][NextReverse]_vars

(* The batch returned after a tree read that succeeded *)
ReverseBatchRead == fn = "reverse_batch" /\ pc = "idle" /\ reads = << "ok" >>

(* The rows of the tree the call met that the batch is to remove *)
RequestedExclusions ==
    {r \in Range(loc.old) :
        /\ IsCl3Exclusion(r)
        /\ \E i \in DOMAIN loc.requested :
              Lower(loc.requested[i]) = Lower(r.value)}

(* C21: after a read that succeeded, a removal call that succeeded has     *)
(* removed exactly the negative CL3 rows with a value whose lower-cased     *)
(* value is the lower-cased name of a requested shop, every requested shop  *)
(* without such a row is in not_found, and the three lists hold requested   *)
(* names only.                                                              *)
C21ExactlyTheRequested ==
    ReverseBatchRead =>
        /\ loc.errors = <<>> =>
              Range(tree) = Range(loc.old) \ RequestedExclusions
        /\ \A i \in DOMAIN loc.requested :
              (\A r \in RequestedExclusions :
                    Lower(r.value) # Lower(loc.requested[i]))
                 => loc.requested[i] \in Range(loc.not_found)
        /\ Range(loc.success) \cup Range(loc.not_found) \cup Range(loc.errors)
              \subseteq Range(loc.requested)

(* The verdict the batch gives for a requested name *)
BatchVerdict(l, shop_name) ==
    IF shop_name \in Range(l.errors) THEN "error"
    ELSE IF shop_name \in Range(l.success) THEN "removed"
    ELSE IF shop_name \in Range(l.not_found) THEN "was not excluded"
    ELSE "none"

(* The verdict of one reverse_exclusion call that has returned *)
SingleVerdict(s) ==
    IF s.result = "failure" THEN "error"
    ELSE IF s.loc.success # <<>> THEN "removed"
    ELSE "was not excluded"

(* reverse_exclusion called for each name in turn, every read and every    *)
(* removal call answered: the tree it leaves and the verdict of each call   *)
RECURSIVE OneByOne(_, _)
OneByOne(s0, shop_names) ==
    IF shop_names = <<>> THEN [tree |-> s0.tree, verdicts |-> <<>>]
    ELSE LET s == ReverseExclusion(s0, shop_names[1], TRUE, TRUE)
             rest == OneByOne(s, Tail(shop_names))
         IN  [tree |-> rest.tree,
              verdicts |-> << SingleVerdict(s) >> \o rest.verdicts]

(* C29: when the names of the list are distinct after lower-casing and the *)
(* read and the removal call of reverse_exclusion_batch succeed, the batch  *)
(* leaves the tree that one reverse_exclusion call per shop leaves, and     *)
(* gives every shop the verdict its own call gives.                         *)
C29BatchIsOneByOne ==
    (/\ ReverseBatchRead
     /\ loc.errors = <<>>
     /\ \A i, j \in DOMAIN loc.requested :
           i # j => Lower(loc.requested[i]) # Lower(loc.requested[j]))
    => LET o == OneByOne([Cur EXCEPT !.tree = loc.old], loc.requested)
       IN  /\ tree = o.tree
           /\ \A i \in DOMAIN loc.requested :
                 BatchVerdict(loc, loc.requested[i]) = o.verdicts[i]

----------------------------------------------------------------------------
(* process_exclusion_sheet_v2 and process_reverse_exclusion_sheet           *)
(* (campaign_processor.py): rows grouped by (maincat_id, cl1), one batch    *)
(* call per ad group of the campaigns of the group                          *)

MaxAdGroups == 2
MaxV2Rows == 2
MaxRetries == 3
FirstDelay == 2

V2Sheets == {"uitsluiten_v2", "verwijderen"}

(* "if not maincat_id or not custom_label_1" is false *)
V2HasFields(r) == r.maincat_id # NoValue /\ r.custom_label_1 # NoValue

V2Key(r) == << r.maincat_id, r.custom_label_1 >>

(* Step 1: rows with a status are skipped, rows without shop name too *)
V2Candidate_AnyStatus(r) == r.shop_name # NoValue

V2Candidate(r) == Unprocessed(r) /\ r.shop_name # NoValue

V2Grouped(rows) ==
    {i \in DOMAIN rows : V2Candidate(rows[i]) /\ V2HasFields(rows[i])}

V2Missing(rows) ==
    {i \in DOMAIN rows : V2Candidate(rows[i]) /\ ~V2HasFields(rows[i])}

(* The row numbers of a group in the order of the sheet *)
RECURSIVE Ascending(_)
Ascending(S) ==
    IF S = {} THEN <<>>
    ELSE LET m == CHOOSE x \in S : \A y \in S : x <= y
         IN  << m >> \o Ascending(S \ {m})

(* groups[(maincat_id, cl1)]: the rows of the key and their shop names *)
V2GroupAt(rows, i) ==
    LET members == Ascending({j \in V2Grouped(rows) :
                                 V2Key(rows[j]) = V2Key(rows[i])})
    IN  [group_key |-> V2Key(rows[i]),
         rows |-> members,
         shop_names |-> [k \in DOMAIN members |-> rows[members[k]].shop_name]]

(* groups.items(): in the order in which their first row stands *)
RECURSIVE V2GroupsFrom(_, _)
V2GroupsFrom(rows, i) ==
    IF i > Len(rows) THEN <<>>
    ELSE IF /\ i \in V2Grouped(rows)
            /\ \A j \in V2Grouped(rows) :
                  j < i => V2Key(rows[j]) # V2Key(rows[i])
         THEN << V2GroupAt(rows, i) >> \o V2GroupsFrom(rows, i + 1)
         ELSE V2GroupsFrom(rows, i + 1)

(* Step 1: rows without a required field are marked, the others grouped;    *)
(* without a group the processor returns.                                   *)
V2SheetStart(s0) ==
    LET rows == s0.sheet.rows
        groups == V2GroupsFrom(rows, 1)
    IN  [s0 EXCEPT
            !.fn = "sheet",
            !.calls = <<>>,
            !.reads = <<>>,
            !.sheet.run = s0.sheet.run + 1,
            !.sheet.rows0 = rows,
            !.sheet.rows = MarkRows(rows, V2Missing(rows), "FALSE",
                                    "Missing required fields"),
            !.sheet.groups = groups,
            !.sheet.at = 0,
            !.sheet.phase = IF groups = <<>> THEN "done" ELSE "loop"]

(* name.split('|')[0] if '|' in name else name *)
Targeting(name) == BeforeBar(name)

(* How often the names of a result list stand for the shop orig: once for  *)
(* each entry of the list and each row of the shop                          *)
CountFor(list, shop_names, orig) ==
    Cardinality({p \in (DOMAIN list) \X (DOMAIN shop_names) :
                    /\ shop_names[p[2]] = orig
                    /\ Targeting(orig) = list[p[1]]})

(* The three result lists of a batch call added to shop_results *)
Aggregate(res, shop_names, success, other, errors) ==
    [n \in DOMAIN res |->
        [success |-> res[n].success + CountFor(success, shop_names, n),
         other |-> res[n].other + CountFor(other, shop_names, n),
         errors |-> res[n].errors + CountFor(errors, shop_names, n)]]

(* Step 3 for one row, ignoring whether a campaign was found *)
V2RowStatus_NoCampaignCheck(campaigns_found, shop_result) ==
    IF shop_result.errors > 0 THEN [status |-> "FALSE", error |-> "errors"]
    ELSE [status |-> "TRUE", error |-> ""]

(* Step 3 for one row: has_activity is computed and not used *)
V2RowStatus(campaigns_found, shop_result) ==
    IF campaigns_found = 0
    THEN [status |-> "FALSE", error |-> "No campaigns found"]
    ELSE IF shop_result.errors > 0 THEN [status |-> "FALSE", error |-> "errors"]
    ELSE [status |-> "TRUE", error |-> ""]

(* Step 3 and the end of one round of the loop over the groups *)
V2GroupEnd(s) ==
    LET sh == s.sheet
        g == sh.groups[sh.at + 1]
        marked == [i \in DOMAIN sh.rows |->
                    IF \E k \in DOMAIN g.rows : g.rows[k] = i
                    THEN LET v == V2RowStatus(sh.campaigns_found,
                                     sh.shop_results[sh.rows[i].shop_name])
                         IN  [sh.rows[i] EXCEPT !.status = v.status,
                                                !.error = v.error]
                    ELSE sh.rows[i]]
    IN  [s EXCEPT !.sheet.rows = marked,
                  !.sheet.at = sh.at + 1,
                  !.sheet.phase = IF sh.at + 1 = Len(sh.groups)
                                  THEN "done" ELSE "loop"]

(* The end of the work on one ad group: after the last ad group of the      *)
(* campaigns of the group the rows are marked                               *)
V2AdGroupEnd(s) ==
    LET s1 == [s EXCEPT !.sheet.ag = s.sheet.ag + 1,
                        !.sheet.retrying = FALSE]
    IN  IF s1.sheet.ag < s1.sheet.plan THEN s1 ELSE V2GroupEnd(s1)

(* The batch function has returned: its lists are added to shop_results *)
V2Aggregate(s) ==
    IF s.pc # "idle" THEN s
    ELSE LET sh == s.sheet
             g == sh.groups[sh.at + 1]
             l == s.loc
             other == IF sh.name = "verwijderen" THEN l.not_found
                      ELSE l.already_excluded
         IN  V2AdGroupEnd([s EXCEPT !.sheet.shop_results =
                 Aggregate(sh.shop_results, g.shop_names, l.success, other,
                           l.errors)])

(* An exception reached the retry loop: a connection error is retried      *)
(* after a sleep while attempts are left, else every shop gets the error    *)
V2Except(s, raised) ==
    LET sh == s.sheet
        g == sh.groups[sh.at + 1]
    IN  IF raised = "unavailable" /\ sh.attempt < MaxRetries
        THEN [s EXCEPT !.sheet.retrying = TRUE,
                       !.sheet.delays = Append(sh.delays, sh.retry_delay),
                       !.sheet.retry_delay = sh.retry_delay * 2]
        ELSE V2AdGroupEnd([s EXCEPT !.sheet.shop_results =
                 [n \in DOMAIN sh.shop_results |->
                     [sh.shop_results[n] EXCEPT
                         !.errors = @ + Cardinality(
                             {k \in DOMAIN g.shop_names :
                                 g.shop_names[k] = n})]]])

(* One attempt on one ad group: t is the tree of the ad group, raised what  *)
(* the batch function lets through, readOk and rmOk what it meets inside    *)
V2Attempt(s0, t, raised, unique_targeting_names, readOk, rmOk) ==
    LET sh == s0.sheet
        g == sh.groups[sh.at + 1]
        first == ~sh.retrying
        s == [s0 EXCEPT
                !.fn = "sheet",
                !.reads = <<>>,
                !.tree = IF first THEN t ELSE s0.tree,
                !.nextReal = IF first THEN Len(t) + 1 ELSE s0.nextReal,
                !.sheet.attempt = IF first THEN 1 ELSE sh.attempt + 1,
                !.sheet.retry_delay = IF first THEN FirstDelay
                                      ELSE sh.retry_delay,
                !.sheet.delays = IF first THEN <<>> ELSE sh.delays]
        names == [k \in DOMAIN g.shop_names |-> Targeting(g.shop_names[k])]
    IN  IF raised # "none" THEN V2Except(s, raised)
        ELSE IF sh.name = "verwijderen"
        THEN V2Aggregate(ReverseExclusionBatch(
                 s, unique_targeting_names, readOk, rmOk))
        ELSE V2Aggregate(AddBatchStart(
                 s, names, unique_targeting_names, readOk))

(* The start of one round of the loop over the groups: without deepest_cats *)
(* the rows are marked; else the ad groups of the campaigns found in the    *)
(* cache are worked on, n of them in all                                    *)
V2GroupStart(s0, has_cats, n) ==
    LET sh == s0.sheet
        g == sh.groups[sh.at + 1]
        s == [s0 EXCEPT
                !.fn = "sheet",
                !.sheet.ag = 0,
                !.sheet.plan = n,
                !.sheet.campaigns_found = IF n > 0 THEN 1 ELSE 0,
                !.sheet.retrying = FALSE,
                !.sheet.shop_results =
                    [x \in Range(g.shop_names) |->
                        [success |-> 0, other |-> 0, errors |-> 0]]]
    IN  IF ~has_cats
        THEN [s EXCEPT
                !.sheet.plan = 0,
                !.sheet.campaigns_found = 0,
                !.sheet.rows = MarkRows(sh.rows, Range(g.rows), "FALSE",
                                        "No deepest_cats"),
                !.sheet.at = sh.at + 1,
                !.sheet.phase = IF sh.at + 1 = Len(sh.groups)
                                THEN "done" ELSE "loop"]
        ELSE IF n = 0 THEN V2GroupEnd(s)
        ELSE [s EXCEPT !.sheet.phase = "ad_groups"]

MaxSheetRuns == 2

Start_V2Sheet ==
    /\ pc = "idle"
    /\ sheet.name \in V2Sheets
    /\ sheet.phase \in {"new", "done"}
    /\ sheet.run < MaxSheetRuns
    /\ Set(V2SheetStart(Cur))

Next_V2Group ==
    /\ pc = "idle"
    /\ sheet.name \in V2Sheets
    /\ sheet.phase = "loop"
    /\ \E has_cats \in BOOLEAN, n \in 0..MaxAdGroups :
          Set(V2GroupStart(Cur, has_cats, n))

V2Trees ==
    {<<>>,
     TreeOf(NoValue, NoValue, <<>>,
            [k |-> "cl3", excl |-> <<>>, bid |-> OldBid]),
     TreeOf(NoValue, NoValue, <<>>,
            [k |-> "cl3", excl |-> <<xnl>>, bid |-> OldBid])}

Next_V2Attempt ==
    /\ pc = "idle"
    /\ sheet.name \in V2Sheets
    /\ sheet.phase = "ad_groups"
    /\ \E t \in V2Trees, raised \in {"none", "unavailable", "other"},
          readOk \in BOOLEAN, rmOk \in BOOLEAN :
          LET g == sheet.groups[sheet.at + 1]
              names == [k \in DOMAIN g.shop_names |->
                           Targeting(g.shop_names[k])]
          IN  \E unique_targeting_names \in ListOfSet(names) :
                 Set(V2Attempt(Cur, t, raised, unique_targeting_names,
                               readOk, rmOk))

Resume_V2Attempt ==
    /\ pc = "resp"
    /\ fn = "add_batch"
    /\ sheet.name = "uitsluiten_v2"
    /\ sheet.phase = "ad_groups"
    /\ Set(V2Aggregate(AddBatchResume(Cur)))

(* The rows of the two sheets: shop, maincat_id, CL1, status and error *)
V2Row(shop_name, maincat_id, status) ==
    [shop_name |-> shop_name, maincat_id |-> maincat_id,
     custom_label_1 |-> Va, status |-> status, error |-> ""]

V2Rows ==
    {V2Row(xnl, V77, ""), V2Row(XNL, V77, ""), V2Row(xbar, V77, ""),
     V2Row(ynl, V88, ""), V2Row(ynl, V77, "TRUE"), V2Row(xnl, NoValue, "")}

InitV2 ==
    /\ tree = <<>>
    /\ nextReal = 1
    /\ tempCounter = -1
    /\ pc = "idle"
    /\ fn = "none"
    /\ batchNo = 0
    /\ inflight = <<>>
    /\ response = NoResponse
    /\ placed = {}
    /\ calls = <<>>
    /\ result = "none"
    /\ err = ""
    /\ warn = {}
    /\ runs = 0
    /\ loc = EmptyLoc
    /\ reads = <<>>
    /\ sheet \in {NewSheet(name, r) :
                     name \in V2Sheets, r \in SeqsUpTo(V2Rows, MaxV2Rows)}
    /\ threads = NoThreads

NextV2 ==
    \/ Start_V2Sheet
    \/ Next_V2Group
    \/ Next_V2Attempt
    \/ Resume_V2Attempt
    \/ RemoteMutate

SpecV2 == InitV2 /\ [][NextV2]_vars

(* The rows of the group whose round of the loop has just ended *)
LastGroupRows ==
    IF sheet.at = 0 \/ sheet.groups = <<>> THEN {}
    ELSE Range(sheet.groups[sheet.at].rows)

GroupJustEnded(name) ==
    /\ sheet.name = name
    /\ pc = "idle"
    /\ sheet.phase \in {"loop", "done"}

C23StatusedRowsUntouched ==
    /\ [][\A i \in DOMAIN sheet.rows :
             sheet.rows[i].status # ""
                => /\ i \in DOMAIN sheet.rows'
                   /\ sheet.rows'[i].status = sheet.rows[i].status
                   /\ sheet.rows'[i].error = sheet.rows[i].error]_vars
    /\ [](sheet.name \in V2Sheets =>
            /\ \A k \in DOMAIN sheet.groups :
                  \A i \in Range(sheet.groups[k].rows) :
                      sheet.rows0[i].status = ""
            /\ (sheet.phase = "ad_groups" /\ fn \in {"add_batch",
                                                     "reverse_batch"})
                  => Range(loc.requested) \subseteq
                        {Targeting(sheet.rows0[i].shop_name) :
                            i \in Range(sheet.groups[sheet.at + 1].rows)}
            /\ (\A i \in DOMAIN sheet.rows0 : sheet.rows0[i].status # "")
                  => sheet.groups = <<>> /\ calls = <<>>)

(* A second run has ended on a sheet that held a row with a status before  *)
(* the first run and a row that got its status in the first run             *)
C23Witness ==
    /\ sheet.name \in V2Sheets
    /\ sheet.run = 2
    /\ sheet.phase = "done"
    /\ \E i, j \in DOMAIN sheet.rows0 :
          /\ sheet.rows0[i].shop_name = ynl
          /\ sheet.rows0[i].maincat_id = V77
          /\ sheet.rows0[i].status = "TRUE"
          /\ sheet.rows0[j].status = "FALSE"

(* C24: when a round of process_exclusion_sheet_v2 has ended, a row of its *)
(* group that is TRUE has, in shop_results, at least one exclusion added or *)
(* already present for its shop and no error for it.                        *)
C24TrueNeedsActivity ==
    GroupJustEnded("uitsluiten_v2") =>
        \A i \in LastGroupRows :
            LET r == sheet.rows[i]
                res == sheet.shop_results[r.shop_name]
            IN  r.status = "TRUE" =>
                   /\ res.success > 0 \/ res.other > 0
                   /\ res.errors = 0

(* C25: when the work on an ad group ends after a tree read that raised,   *)
(* three attempts were made, with sleeps of 2 s and 4 s between them.       *)
C25ReadErrorIsRetried ==
    (/\ sheet.name \in V2Sheets
     /\ pc = "idle"
     /\ ~sheet.retrying
     /\ fn \in {"add_batch", "reverse_batch"}
     /\ reads = << "failed" >>)
    => /\ sheet.attempt = MaxRetries
       /\ sheet.delays = << FirstDelay, 2 * FirstDelay >>

(* The operations of the call whose shop is excluded in the tree *)
OperationsInTree ==
    {i \in DOMAIN loc.operations :
        \E r \in Range(tree) :
            /\ IsCl3Exclusion(r)
            /\ r.parent = loc.operations[i].parent
            /\ Lower(r.value) = Lower(loc.operations[i].value)}

(* C28: when execute_exclusion_batch returns, success_count is at most the *)
(* number of its operations whose shop exclusion exists in the ad group.    *)
C28CountedMeansExcluded ==
    (fn = "exec_batch" /\ pc = "idle" /\ result = "success")
        => loc.success_count <= Cardinality(OperationsInTree)

----------------------------------------------------------------------------
(* add_shopping_ad_group (google_ads_helpers.py)                           *)

(* Stands for the interpreter's limit on nested calls *)
RecursionLimit == 4

NoEan == <<"n", "o", " ", "e", "a", "n">>
No_Ean == <<"n", "o", "_", "e", "a", "n">>
NoData == <<"n", "o", " ", "d", "a", "t", "a">>
No_Data == <<"n", "o", "_", "d", "a", "t", "a">>

(* "no ean" becomes "no_ean" and "no data" becomes "no_data" *)
NormalizeName(ad_group_name) ==
    IF ad_group_name = NoEan THEN No_Ean
    ELSE IF ad_group_name = NoData THEN No_Data
    ELSE ad_group_name

(* The ad groups of the campaign that are not removed: loc.existing *)
AdGroupNames == {No_Ean, No_Data, AG_a}

(* The function is entered, from its caller or from its own handler, and   *)
(* sends the search for an ad group of that name                            *)
AdGroupEnter(s, ad_group_name) ==
    [s EXCEPT !.pc = "search",
              !.calls = Append(s.calls, "search"),
              !.loc.k = s.loc.k + 1,
              !.loc.shop = NormalizeName(ad_group_name)]

AdGroupCall(s0, ad_group_name) ==
    AdGroupEnter([s0 EXCEPT !.fn = "ad_group", !.runs = s0.runs + 1,
                            !.calls = <<>>, !.result = "none", !.err = "",
                            !.loc.k = 0, !.loc.mode = ""],
                 ad_group_name)

(* The search is answered: a row returns (resource_name, False), no row    *)
(* leads to the creation call; an error of the search is not caught         *)
AdGroupSearched(s, searchOk) ==
    IF ~searchOk THEN Raise(s, "search")
    ELSE IF \E i \in DOMAIN s.loc.existing : s.loc.existing[i] = s.loc.shop
    THEN Return([s EXCEPT !.loc.mode = "existing"])
    ELSE [s EXCEPT !.pc = "create", !.calls = Append(s.calls, "mutate")]

(* The creation is answered: a result returns (resource_name, True); on    *)
(* GoogleAdsException the function calls itself with the same arguments,    *)
(* which the interpreter refuses at its limit of nested calls; any other    *)
(* error is not caught                                                      *)
AdGroupCreated(s, outcome) ==
    IF outcome = "ok"
    THEN Return([s EXCEPT !.loc.mode = "created",
                          !.loc.existing = Append(s.loc.existing, s.loc.shop)])
    ELSE IF outcome = "GoogleAdsException"
    THEN IF s.loc.k < RecursionLimit THEN AdGroupEnter(s, s.loc.shop)
         ELSE Raise(s, "RecursionError")
    ELSE Raise(s, "mutate")

Start_AdGroup ==
    /\ pc = "idle"
    /\ runs < MaxRuns
    /\ \E ad_group_name \in {NoEan, NoData, AG_a} :
          Set(AdGroupCall(Cur, ad_group_name))

AdGroup_Search ==
    /\ pc = "search"
    /\ \E searchOk \in BOOLEAN : Set(AdGroupSearched(Cur, searchOk))

(* A name that exists by now cannot be created *)
AdGroup_Create ==
    /\ pc = "create"
    /\ \E outcome \in {"ok", "GoogleAdsException", "other"} :
          /\ outcome = "ok" =>
                \A i \in DOMAIN loc.existing : loc.existing[i] # loc.shop
          /\ Set(AdGroupCreated(Cur, outcome))

(* Another process creates an ad group in the campaign *)
AdGroup_Appears ==
    /\ pc \in {"search", "create"}
    /\ \E n \in AdGroupNames :
          /\ \A i \in DOMAIN loc.existing : loc.existing[i] # n
          /\ Set([Cur EXCEPT !.loc.existing = Append(loc.existing, n)])

InitAdGroup ==
    /\ tree = <<>>
    /\ nextReal = 1
    /\ tempCounter = -1
    /\ pc = "idle"
    /\ fn = "none"
    /\ batchNo = 0
    /\ inflight = <<>>
    /\ response = NoResponse
    /\ placed = {}
    /\ calls = <<>>
    /\ result = "none"
    /\ err = ""
    /\ warn = {}
    /\ runs = 0
    /\ loc \in {[EmptyLoc EXCEPT !.existing = e] :
                   e \in {<<>>, << AG_a >>, << No_Ean >>}}
    /\ reads = <<>>
    /\ sheet = NoSheet
    /\ threads = NoThreads

NextAdGroup ==
    \/ Start_AdGroup
    \/ AdGroup_Search
    \/ AdGroup_Create
    \/ AdGroup_Appears

SpecAdGroup == InitAdGroup /\ [][NextAdGroup]_vars

(* C30: add_shopping_ad_group ends by returning a resource name or by      *)
(* passing on an error of a remote call after a number of remote calls that *)
(* the function itself limits; it never goes on retrying the creation until *)
(* the limit on nested calls ends it.                                       *)
C30RetriesAreLimited ==
    ~(fn = "ad_group" /\ pc = "idle" /\ err = "RecursionError")

----------------------------------------------------------------------------
(* rebuild_tree_with_shop_exclusions called again and again on one ad      *)
(* group; loc.before keeps the exclusions the ad group had before the first *)
(* of the calls                                                             *)

Start_ShopExclAgain ==
    /\ pc = "idle"
    /\ runs < MaxRuns
    /\ \E shop_names \in {<<>>, << ynl >>}, o \in Outcomes :
          \E sorted_shops \in SortedByLower(
                  MergeExclusions(ExistingShopExclusions(tree), shop_names)) :
              LET before == IF runs = 0 THEN ExistingCl3Exclusions(tree)
                            ELSE loc.before
              IN  Set([ShopExclStart(Cur, shop_names, V77, AG_a, o.readOk,
                                     o.rmReadOk, o.rmOk, sorted_shops)
                          EXCEPT !.loc.before = before])

NextRebuilds ==
    \/ Start_ShopExclAgain
    \/ Resume_ShopExcl
    \/ RemoteMutate

SpecRebuilds == InitShopExcl /\ [][NextRebuilds]_vars

(* C26: when a call of rebuild_tree_with_shop_exclusions has succeeded,    *)
(* every shop that was excluded in the ad group before the first call of    *)
(* the sequence is excluded in its tree.                                    *)
C26ExclusionsSurvive ==
    (fn = "shop_excl" /\ pc = "idle" /\ result = "success")
        => loc.before \subseteq ExistingCl3Exclusions(tree)

----------------------------------------------------------------------------
(* process_inclusion_sheet_v2 run again and again for one ad group: every   *)
(* run is given rows without status of the shop x.nl in the campaign of     *)
(* maincat 77, and the ad group keeps its tree from run to run              *)

OneAdGroupRows ==
    {InclusionRow(xnl, V77, V77, ""), InclusionRow(xnl, V77, V88, "")}

OneAdGroupSheets == SeqsUpTo(OneAdGroupRows, 2) \ {<<>>}

Next_SameAdGroup ==
    /\ pc = "idle"
    /\ sheet.name = "toevoegen"
    /\ sheet.phase = "ad_groups"
    /\ \E adGroupOk, checkOk, adOk \in BOOLEAN :
          Set(InclusionAdGroupStart(Cur, adGroupOk, tree, checkOk, adOk))

(* The processor is given the sheet of the next run *)
Again_InclusionSheet ==
    /\ pc = "idle"
    /\ sheet.name = "toevoegen"
    /\ sheet.phase = "done"
    /\ sheet.run + 1 < MaxSheetRuns
    /\ \E r \in OneAdGroupSheets :
          sheet' = [NewSheet("toevoegen", r) EXCEPT !.run = sheet.run + 1]
    /\ UNCHANGED <<tree, nextReal, tempCounter, pc, fn, batchNo, inflight,
                   response, placed, calls, result, err, warn, runs, loc,
                   reads, threads>>

InitInclusionRuns ==
    /\ tree = <<>>
    /\ nextReal = 1
    /\ tempCounter = -1
    /\ pc = "idle"
    /\ fn = "none"
    /\ batchNo = 0
    /\ inflight = <<>>
    /\ response = NoResponse
    /\ placed = {}
    /\ calls = <<>>
    /\ result = "none"
    /\ err = ""
    /\ warn = {}
    /\ runs = 0
    /\ loc = EmptyLoc
    /\ reads = <<>>
    /\ sheet \in {NewSheet("toevoegen", r) : r \in OneAdGroupSheets}
    /\ threads = NoThreads

NextInclusionRuns ==
    \/ Start_InclusionSheet
    \/ Next_InclusionCampaign
    \/ Next_SameAdGroup
    \/ Resume_InclusionAdGroup
    \/ Again_InclusionSheet
    \/ RemoteMutate

SpecInclusionRuns == InitInclusionRuns /\ [][NextInclusionRuns]_vars

(* C27: when the rows of a run of process_inclusion_sheet_v2 are marked, a *)
(* row marked TRUE has a positive CL4 unit for its maincat_id in the tree   *)
(* of its ad group, and so has every row of its group.                      *)
C27TrueMeansTargeted ==
    (sheet.name = "toevoegen" /\ pc = "idle"
        /\ sheet.phase \in {"loop", "done"})
    => \A i \in DOMAIN sheet.rows :
          sheet.rows[i].status = "TRUE"
             => \E r \in Range(tree) :
                   /\ r.kind = "UNIT"
                   /\ r.axis = "INDEX4"
                   /\ ~r.neg
                   /\ r.value = sheet.rows[i].maincat_id

====
